---------------------------- MODULE Spec2Model ----------------------------
(***************************************************************************)
(* Dragon-Lang toolchain: semantic analyzer, IR generator, optimizer and   *)
(* virtual machine, modelled from the Python sources.                      *)
(*                                                                         *)
(* Text (IR operands, names, labels, printed output) is modelled as        *)
(* sequences of one-character strings, so that startswith / isdigit /      *)
(* slicing / str() / int() / float() are computed as the code computes     *)
(* them.  Python ints are integers; Python floats are exact rationals in   *)
(* lowest terms with a sign bit (sign-magnitude, so that -0.0 exists).     *)
(* The inputs are chosen so that every float that arises is a dyadic       *)
(* rational of small magnitude, on which binary floating point is exact    *)
(* and repr() is the exact decimal expansion (FloatsExact checks it).      *)
(***************************************************************************)
EXTENDS Integers, Sequences, FiniteSets, TLC

VARIABLES
    unit,           \* unit harness: the function under test and its inputs
    out,            \* unit harness: the value the function returned
    source_code,    \* driver: the text read from the file
    tokens,         \* driver: list(tokenize(source_code))
    program,        \* driver: the AST handed to the passes (ast.Program)
    phase,          \* driver: position of main() in the pipeline
    error_kind,     \* driver: which except-clause of main() reported
    exit_code,      \* driver: value returned by main()
    sem,            \* SemanticAnalyzer state after analyze()
    ir,             \* IRProgram.instructions returned by generate_ir
    optimized_ir,   \* IRProgram.instructions returned by optimize
    vm,             \* VirtualMachine running the optimized IR (the driver's)
    refvm           \* VirtualMachine running the unoptimized IR

vars == <<unit, out, source_code, tokens, program, phase, error_kind, exit_code, sem, ir,
          optimized_ir, vm, refvm>>

-----------------------------------------------------------------------------
(* Bounds *)

\* longest instruction list handed to remove_dead_temps in the unit harness
MaxDeadLen == 3
\* longest instruction list handed to remove_trivial_gotos in the unit harness
MaxGotoLen == 4
\* instructions one VirtualMachine.run may execute before the model stops it
MaxSteps == 40

-----------------------------------------------------------------------------
(* Text *)

Quote == "\""
DigitChars == <<"0", "1", "2", "3", "4", "5", "6", "7", "8", "9">>
DigitSet == {DigitChars[i] : i \in 1..10}
DigitVal(c) == (CHOOSE i \in 1..10 : DigitChars[i] = c) - 1

\* str.isdigit()
isdigit(s) == Len(s) > 0 /\ \A i \in 1..Len(s) : s[i] \in DigitSet
\* str.startswith(c) / str.endswith(c) for a one-character c
startswith(s, c) == Len(s) > 0 /\ s[1] = c
endswith(s, c) == Len(s) > 0 /\ s[Len(s)] = c
\* c in s
Contains(s, c) == \E i \in 1..Len(s) : s[i] = c
\* s.replace(c, '', 1)
ReplaceFirst(s, c) ==
    IF ~Contains(s, c) THEN s
    ELSE LET i == CHOOSE j \in 1..Len(s) :
                      s[j] = c /\ \A m \in 1..(j - 1) : s[m] # c
         IN SubSeq(s, 1, i - 1) \o SubSeq(s, i + 1, Len(s))
\* s.lstrip(c)
RECURSIVE lstrip(_, _)
lstrip(s, c) == IF startswith(s, c) THEN lstrip(Tail(s), c) ELSE s

Abs(n) == IF n < 0 THEN -n ELSE n
Sign(n) == IF n < 0 THEN -1 ELSE 1

RECURSIVE GCD(_, _)
GCD(a, b) == IF b = 0 THEN a ELSE GCD(b, a % b)

RECURSIVE Pow(_, _)
Pow(b, e) == IF e = 0 THEN 1 ELSE b * Pow(b, e - 1)

\* d = 2^k: k, or -1 when d is no power of two
RECURSIVE Log2(_)
Log2(d) == IF d = 1 THEN 0
           ELSE IF d % 2 # 0 THEN -1
           ELSE LET r == Log2(d \div 2) IN IF r < 0 THEN -1 ELSE r + 1

\* decimal digits of a natural number
RECURSIVE NatStr(_)
NatStr(n) == IF n < 10 THEN <<DigitChars[n + 1]>>
             ELSE NatStr(n \div 10) \o <<DigitChars[(n % 10) + 1]>>

\* str(n) / repr(n) of a Python int
IntStr(n) == IF n < 0 THEN <<"-">> \o NatStr(-n) ELSE NatStr(n)

\* value of a string of decimal digits
RECURSIVE NatVal(_)
NatVal(s) == IF s = <<>> THEN 0
             ELSE NatVal(SubSeq(s, 1, Len(s) - 1)) * 10 + DigitVal(s[Len(s)])

\* n as exactly w digits, zero-padded on the left
RECURSIVE PadStr(_, _)
PadStr(n, w) == IF w = 0 THEN <<>>
                ELSE PadStr(n \div 10, w - 1) \o <<DigitChars[(n % 10) + 1]>>

-----------------------------------------------------------------------------
(* Runtime values: Python int, float, str and None *)

NoneV == [k |-> "none"]
IntV(n) == [k |-> "int", n |-> n]
StrV(s) == [k |-> "str", s |-> s]
\* the float p/q (q > 0); negzero is the sign bit used when p = 0
FloatV(p, q, negzero) ==
    LET g == GCD(Abs(p), q)
    IN [k |-> "float",
        s |-> IF p < 0 \/ (p = 0 /\ negzero) THEN -1 ELSE 1,
        n |-> Abs(p) \div g,
        d |-> q \div g]

IsNum(v) == v.k \in {"int", "float"}
\* numerator and denominator of a number, as float(v) sees it
NumP(v) == IF v.k = "int" THEN v.n ELSE v.s * v.n
NumQ(v) == IF v.k = "int" THEN 1 ELSE v.d
\* sign bit of float(v)
SignBit(v) == IF v.k = "int" THEN v.n < 0 ELSE v.s = -1
\* bool(v)
Truthy(v) == CASE v.k = "int" -> v.n # 0
               [] v.k = "float" -> v.n # 0
               [] v.k = "str" -> v.s # <<>>
               [] OTHER -> FALSE

\* every float is one on which binary floating point and repr() are exact
ExactFloat(v) == v.k = "float" => (Log2(v.d) >= 0 /\ v.d <= 64 /\ v.n < 4096 * v.d)

\* repr(f) / str(f) of a Python float
FloatStr(v) ==
    LET k == Log2(v.d)
        frac == IF k <= 0 THEN <<"0">>
                ELSE PadStr(((v.n % v.d) * Pow(10, k)) \div v.d, k)
    IN (IF v.s = -1 THEN <<"-">> ELSE <<>>)
       \o NatStr(v.n \div v.d) \o <<".">> \o frac

\* str(v), the display form print() and string `+` use
PyStr(v) == CASE v.k = "int" -> IntStr(v.n)
              [] v.k = "float" -> FloatStr(v)
              [] v.k = "str" -> v.s
              [] OTHER -> <<"N", "o", "n", "e">>

\* results of operations that may raise
Ok(v) == [ok |-> TRUE, v |-> v, err |-> "none"]
Err(kind) == [ok |-> FALSE, v |-> NoneV, err |-> kind]

\* int(s): an optional sign and decimal digits, else ValueError
PyInt(s) ==
    LET body == IF startswith(s, "-") \/ startswith(s, "+") THEN Tail(s) ELSE s
    IN IF isdigit(body)
       THEN Ok(IntV(IF startswith(s, "-") THEN -NatVal(body) ELSE NatVal(body)))
       ELSE Err("ValueError")

\* float(s): an optional sign, digits with at most one point, else ValueError
PyFloat(s) ==
    LET body == IF startswith(s, "-") \/ startswith(s, "+") THEN Tail(s) ELSE s
        digits == ReplaceFirst(body, ".")
        dot == IF Contains(body, ".")
               THEN CHOOSE j \in 1..Len(body) : body[j] = "." /\ \A m \in 1..(j - 1) : body[m] # "."
               ELSE Len(body) + 1
        nfrac == IF Contains(body, ".") THEN Len(body) - dot ELSE 0
    IN IF isdigit(digits)
       THEN Ok(FloatV((IF startswith(s, "-") THEN -1 ELSE 1) * NatVal(digits),
                      Pow(10, nfrac), startswith(s, "-")))
       ELSE Err("ValueError")

\* Python a % b on ints, b # 0: the result has the sign of b
PyMod(a, b) == IF b > 0 THEN a % b ELSE -((-a) % (-b))

-----------------------------------------------------------------------------
(* IR instructions (ir.py) *)

Label(name) == [kind |-> "Label", name |-> name]
Goto(target) == [kind |-> "Goto", target |-> target]
IfGoto(condition, target) ==
    [kind |-> "IfGoto", condition |-> condition, target |-> target]
Assign(dest, src) == [kind |-> "Assign", dest |-> dest, src |-> src]
BinaryOp(dest, op, left, right) ==
    [kind |-> "BinaryOp", dest |-> dest, op |-> op, left |-> left, right |-> right]
UnaryOp(dest, op, operand) ==
    [kind |-> "UnaryOp", dest |-> dest, op |-> op, operand |-> operand]
PrintInstr(value) == [kind |-> "PrintInstr", value |-> value]
ReadInstr(dest) == [kind |-> "ReadInstr", dest |-> dest]
FuncLabel(name) == [kind |-> "FuncLabel", name |-> name]
ParamInstr(value) == [kind |-> "ParamInstr", value |-> value]
\* dest is Optional[str]: has_dest = FALSE is dest = None
CallInstr(has_dest, dest, callee, arg_count) ==
    [kind |-> "CallInstr", has_dest |-> has_dest, dest |-> dest,
     callee |-> callee, arg_count |-> arg_count]
\* value is Optional[str]: has_value = FALSE is value = None
ReturnInstr(has_value, value) ==
    [kind |-> "ReturnInstr", has_value |-> has_value, value |-> value]

BinaryOperators ==
    {"+", "-", "*", "/", "%", "<", "<=", ">", ">=", "==", "!=", "&&", "||"}

-----------------------------------------------------------------------------
(* Optimizer: constant folding (optimizer.py) *)

\* Optimizer._is_constant
_is_constant(val) ==
    \/ startswith(val, Quote) /\ endswith(val, Quote)
    \/ isdigit(ReplaceFirst(val, "."))
    \/ val \in {<<"0">>, <<"1">>}

\* `float(x) if "." in x else int(x)`
FoldNumber(x) == IF Contains(x, ".") THEN PyFloat(x) ELSE PyInt(x)

\* Python arithmetic of _fold_binary on two numbers: int op int stays int
\* (except `/`), anything with a float is a float
FoldArith(op, a, b) ==
    LET ints == a.k = "int" /\ b.k = "int"
        pa == NumP(a)
        qa == NumQ(a)
        pb == NumP(b)
        qb == NumQ(b)
        lt == pa * qb < pb * qa
        eq == pa * qb = pb * qa
        B(x) == IntV(IF x THEN 1 ELSE 0)
    IN CASE op = "+" ->
              IF ints THEN Ok(IntV(pa + pb))
              ELSE Ok(FloatV(pa * qb + pb * qa, qa * qb, SignBit(a) /\ SignBit(b)))
         [] op = "-" ->
              IF ints THEN Ok(IntV(pa - pb))
              ELSE Ok(FloatV(pa * qb - pb * qa, qa * qb, SignBit(a) /\ ~SignBit(b)))
         [] op = "*" ->
              IF ints THEN Ok(IntV(pa * pb))
              ELSE Ok(FloatV(pa * pb, qa * qb, SignBit(a) # SignBit(b)))
         [] op = "/" ->
              IF pb = 0 THEN Err("ZeroDivisionError")
              ELSE Ok(FloatV(pa * qb * Sign(pb), qa * Abs(pb), SignBit(a) # SignBit(b)))
         [] op = "%" ->
              IF ~ints THEN Err("RuntimeError")
              ELSE IF pb = 0 THEN Err("ZeroDivisionError")
              ELSE Ok(IntV(PyMod(pa, pb)))
         [] op = "<" -> Ok(B(lt))
         [] op = "<=" -> Ok(B(lt \/ eq))
         [] op = ">" -> Ok(B(~lt /\ ~eq))
         [] op = ">=" -> Ok(B(~lt))
         [] op = "==" -> Ok(B(eq))
         [] op = "!=" -> Ok(B(~eq))
         [] op = "&&" -> Ok(B(Truthy(a) /\ Truthy(b)))
         [] op = "||" -> Ok(B(Truthy(a) \/ Truthy(b)))
         [] OTHER -> Err("RuntimeError")

\* Optimizer._fold_binary: the folded operand text, or the exception raised
_fold_binary(op, left, right) ==
    IF startswith(left, Quote) \/ startswith(right, Quote)
    THEN IF op = "+"
         THEN Ok(StrV(SubSeq(left, 1, Len(left) - 1) \o SubSeq(right, 2, Len(right))))
         ELSE Err("RuntimeError")
    ELSE LET a == FoldNumber(left)
             b == FoldNumber(right)
         IN IF ~a.ok THEN a
            ELSE IF ~b.ok THEN b
            ELSE LET r == FoldArith(op, a.v, b.v)
                 IN IF r.ok THEN Ok(StrV(PyStr(r.v))) ELSE r

\* Optimizer._fold_unary
_fold_unary(op, operand) ==
    IF startswith(operand, Quote) THEN Err("RuntimeError")
    ELSE LET val == FoldNumber(operand)
         IN IF ~val.ok THEN val
            ELSE IF op = "-"
            THEN Ok(StrV(PyStr(IF val.v.k = "int" THEN IntV(-val.v.n)
                               ELSE [val.v EXCEPT !.s = -val.v.s])))
            ELSE IF op = "!"
            THEN Ok(StrV(IF ~Truthy(val.v) THEN <<"1">> ELSE <<"0">>))
            ELSE Err("RuntimeError")

-----------------------------------------------------------------------------
(* Virtual machine: operand decoding and operators (vm.py) *)

\* VirtualMachine._get: the value of an operand in environment env
_get(env, operand) ==
    IF startswith(operand, Quote) /\ endswith(operand, Quote)
    THEN Ok(StrV(SubSeq(operand, 2, Len(operand) - 1)))
    ELSE IF operand \in DOMAIN env THEN Ok(env[operand])
    ELSE IF isdigit(lstrip(operand, "-")) THEN PyInt(operand)
    ELSE LET f == PyFloat(operand)
         IN IF f.ok /\ Contains(operand, ".") THEN f
            ELSE IF operand = <<"0">> THEN Ok(IntV(0))
            ELSE IF operand = <<"1">> THEN Ok(IntV(1))
            ELSE Err("VMError")

\* `if isinstance(r, float) and r.is_integer(): r = int(r)`
Narrow(p, q, negzero) ==
    IF p % q = 0 THEN IntV(p \div q) ELSE FloatV(p, q, negzero)

\* the BinaryOp branch of VirtualMachine.run on decoded operands a and b:
\* the value stored in dest, or the exception raised
VMBinary(op, a, b) ==
    IF op = "+" /\ (a.k = "str" \/ b.k = "str")
    THEN Ok(StrV(PyStr(a) \o PyStr(b)))
    ELSE IF ~IsNum(a) \/ ~IsNum(b) THEN Err("VMError")
    ELSE LET pa == NumP(a)
             qa == NumQ(a)
             pb == NumP(b)
             qb == NumQ(b)
             lt == pa * qb < pb * qa
             eq == pa * qb = pb * qa
             B(x) == IntV(IF x THEN 1 ELSE 0)
         IN CASE op = "+" -> Ok(Narrow(pa * qb + pb * qa, qa * qb, FALSE))
              [] op = "-" -> Ok(Narrow(pa * qb - pb * qa, qa * qb, FALSE))
              [] op = "*" -> Ok(Narrow(pa * pb, qa * qb, FALSE))
              [] op = "/" ->
                   IF pb = 0 THEN Err("VMError")
                   ELSE Ok(Narrow(pa * qb * Sign(pb), qa * Abs(pb), FALSE))
              [] op = "%" ->
                   IF a.k # "int" \/ b.k # "int" THEN Err("VMError")
                   ELSE IF pb = 0 THEN Err("ZeroDivisionError")
                   ELSE Ok(IntV(PyMod(pa, pb)))
              [] op = "<" -> Ok(B(lt))
              [] op = "<=" -> Ok(B(lt \/ eq))
              [] op = ">" -> Ok(B(~lt /\ ~eq))
              [] op = ">=" -> Ok(B(~lt))
              [] op = "==" -> Ok(B(eq))
              [] op = "!=" -> Ok(B(~eq))
              [] op = "&&" -> Ok(B(pa # 0 /\ pb # 0))
              [] op = "||" -> Ok(B(pa # 0 \/ pb # 0))
              [] OTHER -> Err("VMError")

\* the UnaryOp branch of VirtualMachine.run on the decoded operand a
VMUnary(op, a) ==
    IF op = "-"
    THEN IF ~IsNum(a) THEN Err("VMError")
         ELSE Ok(IF a.k = "int" THEN IntV(-a.n) ELSE [a EXCEPT !.s = -a.s])
    ELSE IF op = "!" THEN Ok(IntV(IF Truthy(a) THEN 0 ELSE 1))
    ELSE Err("VMError")

-----------------------------------------------------------------------------
(* Optimizer passes (optimizer.py) *)

\* consts.get(name, name)
ConstsGet(consts, name) == IF name \in DOMAIN consts THEN consts[name] ELSE name

\* the loop of Optimizer.constant_propagation from instruction i on, with the
\* dictionary consts and the output list new built so far
RECURSIVE PropagateFrom(_, _, _, _)
PropagateFrom(instrs, i, consts, new) ==
    IF i > Len(instrs) THEN [ok |-> TRUE, instrs |-> new, err |-> "none"]
    ELSE LET instr == instrs[i]
         IN IF instr.kind = "Assign" /\ _is_constant(instr.src)
            THEN PropagateFrom(instrs, i + 1,
                               (instr.dest :> instr.src) @@ consts,
                               Append(new, instr))
            ELSE IF instr.kind = "BinaryOp"
            THEN LET left == ConstsGet(consts, instr.left)
                     right == ConstsGet(consts, instr.right)
                 IN IF _is_constant(left) /\ _is_constant(right)
                    THEN LET folded == _fold_binary(instr.op, left, right)
                         IN IF ~folded.ok
                            THEN [ok |-> FALSE, instrs |-> <<>>, err |-> folded.err]
                            ELSE PropagateFrom(instrs, i + 1,
                                               (instr.dest :> folded.v.s) @@ consts,
                                               Append(new, Assign(instr.dest, folded.v.s)))
                    ELSE PropagateFrom(instrs, i + 1, consts,
                                       Append(new, BinaryOp(instr.dest, instr.op, left, right)))
            ELSE IF instr.kind = "UnaryOp"
            THEN LET operand == ConstsGet(consts, instr.operand)
                 IN IF _is_constant(operand)
                    THEN LET folded == _fold_unary(instr.op, operand)
                         IN IF ~folded.ok
                            THEN [ok |-> FALSE, instrs |-> <<>>, err |-> folded.err]
                            ELSE PropagateFrom(instrs, i + 1,
                                               (instr.dest :> folded.v.s) @@ consts,
                                               Append(new, Assign(instr.dest, folded.v.s)))
                    ELSE PropagateFrom(instrs, i + 1, consts,
                                       Append(new, UnaryOp(instr.dest, instr.op, operand)))
            ELSE PropagateFrom(instrs, i + 1, consts, Append(new, instr))

\* Optimizer.constant_propagation
constant_propagation(instrs) == PropagateFrom(instrs, 1, <<>>, <<>>)

\* mutant of UsedBy: the ParamInstr branch is missing
UsedByWithoutParam(instr) ==
    CASE instr.kind = "Assign" -> {instr.src}
      [] instr.kind = "BinaryOp" -> {instr.left, instr.right}
      [] instr.kind = "UnaryOp" -> {instr.operand}
      [] instr.kind = "PrintInstr" -> {instr.value}
      [] instr.kind = "IfGoto" -> {instr.condition}
      [] instr.kind = "ReturnInstr" ->
           IF instr.has_value /\ instr.value # <<>> THEN {instr.value} ELSE {}
      [] OTHER -> {}

\* phase 1 of remove_dead_temps: what one instruction adds to `used`
UsedBy(instr) ==
    CASE instr.kind = "Assign" -> {instr.src}
      [] instr.kind = "BinaryOp" -> {instr.left, instr.right}
      [] instr.kind = "UnaryOp" -> {instr.operand}
      [] instr.kind = "PrintInstr" -> {instr.value}
      [] instr.kind = "IfGoto" -> {instr.condition}
      [] instr.kind = "ReturnInstr" ->
           IF instr.has_value /\ instr.value # <<>> THEN {instr.value} ELSE {}
      [] instr.kind = "ParamInstr" -> {instr.value}
      [] instr.kind = "CallInstr" ->
           IF instr.has_dest /\ instr.dest # <<>> THEN {instr.dest} ELSE {}
      [] OTHER -> {}

\* the set `used` of remove_dead_temps
UsedNames(instrs) == UNION {UsedBy(instrs[i]) : i \in 1..Len(instrs)}

\* phase 2 of remove_dead_temps: is this instruction skipped
IsDeadTemp(instr, used) ==
    instr.kind = "Assign" /\ startswith(instr.dest, "t") /\ instr.dest \notin used

\* phase 2 of remove_dead_temps from instruction i on
RECURSIVE DeadKeptFrom(_, _, _)
DeadKeptFrom(instrs, i, used) ==
    IF i > Len(instrs) THEN <<>>
    ELSE (IF IsDeadTemp(instrs[i], used) THEN <<>> ELSE <<instrs[i]>>)
         \o DeadKeptFrom(instrs, i + 1, used)

\* Optimizer.remove_dead_temps
remove_dead_temps(instrs) == DeadKeptFrom(instrs, 1, UsedNames(instrs))

\* mutant of IsTrivialGoto: the instruction after the Goto is not looked at
IsAnyGoto(instrs, i) == instrs[i].kind = "Goto"

\* the test of remove_trivial_gotos on instruction i of instrs
IsTrivialGoto(instrs, i) ==
    /\ instrs[i].kind = "Goto"
    /\ i + 1 <= Len(instrs)
    /\ instrs[i + 1].kind = "Label"
    /\ instrs[i].target = instrs[i + 1].name

\* the loop of remove_trivial_gotos from instruction i on
RECURSIVE GotoKeptFrom(_, _)
GotoKeptFrom(instrs, i) ==
    IF i > Len(instrs) THEN <<>>
    ELSE (IF IsTrivialGoto(instrs, i) THEN <<>> ELSE <<instrs[i]>>)
         \o GotoKeptFrom(instrs, i + 1)

\* Optimizer.remove_trivial_gotos
remove_trivial_gotos(instrs) == GotoKeptFrom(instrs, 1)

\* Optimizer.optimize: the optimized list, or the exception that escaped
optimize(instrs) ==
    LET p == constant_propagation(instrs)
    IN IF ~p.ok THEN p
       ELSE [ok |-> TRUE,
             instrs |-> remove_trivial_gotos(remove_dead_temps(p.instrs)),
             err |-> "none"]

-----------------------------------------------------------------------------
(* Source literals and their IR encoding *)

\* a Python bool held by ast.LiteralExpr (isinstance(v, bool))
BoolV(b) == [k |-> "bool", b |-> b]

\* names and texts used by the inputs
tx == <<"x">>
ty == <<"y">>
tn == <<"n">>
tf == <<"f">>
tg == <<"g">>
tmain == <<"m", "a", "i", "n">>
ttot == <<"t", "o", "t">>
tt0 == <<"t", "0">>
tt1 == <<"t", "1">>
tt2 == <<"t", "2">>
tL1 == <<"L", "1">>
tL2 == <<"L", "2">>
ta == <<"a">>
tb == <<"b">>
th == <<"h">>

\* the values of the literals the inputs are built from
IntLiterals == {IntV(0), IntV(1), IntV(2), IntV(4)}
FloatLiterals == {FloatV(0, 1, FALSE), FloatV(1, 2, FALSE), FloatV(2, 1, FALSE)}
BoolLiterals == {BoolV(TRUE), BoolV(FALSE)}
StringLiterals == {StrV(<<>>), StrV(ta), StrV(tb)}
LiteralValues == IntLiterals \cup FloatLiterals \cup BoolLiterals \cup StringLiterals

\* the LiteralExpr branch of IRGenerator._gen_expr: the operand text of a literal
EncodeLiteral(v) ==
    CASE v.k = "bool" -> IF v.b THEN <<"1">> ELSE <<"0">>
      [] v.k \in {"int", "float"} -> PyStr(v)
      [] v.k = "str" -> <<Quote>> \o v.s \o <<Quote>>

LiteralOperands == {EncodeLiteral(v) : v \in LiteralValues}

-----------------------------------------------------------------------------
(* Semantic analyzer: type utilities (semantic.py) *)

TypeTags == {"int", "float", "bool", "string"}

\* mutant of _ensure_type_compatible: the widening is accepted both ways
EnsureCompatibleEitherWay(expected, found) ==
    IF expected = "string" \/ found = "string"
    THEN expected = found
    ELSE IF {expected, found} = {"float", "int"} THEN TRUE
    ELSE expected = found

\* SemanticAnalyzer._ensure_type_compatible: TRUE when it returns,
\* FALSE when it raises SemanticError
_ensure_type_compatible(expected, found) ==
    IF expected = "string" \/ found = "string"
    THEN expected = found
    ELSE IF expected = "float" /\ found = "int" THEN TRUE
    ELSE expected = found

\* SemanticAnalyzer._require_type
_require_type(found, expected) == found = expected

\* SemanticAnalyzer._require_numeric
_require_numeric(t) == t \in {"int", "float"}

\* SemanticAnalyzer._infer_literal_type
_infer_literal_type(v) ==
    CASE v.k = "bool" -> "bool"
      [] v.k = "int" -> "int"
      [] v.k = "float" -> "float"
      [] v.k = "str" -> "string"

-----------------------------------------------------------------------------
(* AST (ast.py) *)

\* an absent optional node (None)
NoNode == [node |-> "None"]

Param(param_type, name) == [param_type |-> param_type, name |-> name]
FunctionDecl(name, params, body) ==
    [node |-> "FunctionDecl", name |-> name, params |-> params, body |-> body]

BlockStmt(statements) == [node |-> "BlockStmt", statements |-> statements]
VarDeclStmt(var_type, name, initializer) ==
    [node |-> "VarDeclStmt", var_type |-> var_type, name |-> name,
     initializer |-> initializer]
ExprStmt(expr) == [node |-> "ExprStmt", expr |-> expr]
IfStmt(condition, then_branch, else_branch) ==
    [node |-> "IfStmt", condition |-> condition, then_branch |-> then_branch,
     else_branch |-> else_branch]
WhileStmt(condition, body) ==
    [node |-> "WhileStmt", condition |-> condition, body |-> body]
DoWhileStmt(body, condition) ==
    [node |-> "DoWhileStmt", body |-> body, condition |-> condition]
ForStmt(init, condition, update, body) ==
    [node |-> "ForStmt", init |-> init, condition |-> condition,
     update |-> update, body |-> body]
ReturnStmt(value) == [node |-> "ReturnStmt", value |-> value]
PrintStmt(expr) == [node |-> "PrintStmt", expr |-> expr]
ReadStmt(target) == [node |-> "ReadStmt", target |-> target]

LiteralExpr(value) == [node |-> "LiteralExpr", value |-> value]
VarExpr(name) == [node |-> "VarExpr", name |-> name]
UnaryExpr(op, operand) == [node |-> "UnaryExpr", op |-> op, operand |-> operand]
BinaryExpr(left, op, right) ==
    [node |-> "BinaryExpr", left |-> left, op |-> op, right |-> right]
GroupingExpr(expr) == [node |-> "GroupingExpr", expr |-> expr]
AssignmentExpr(name, value) ==
    [node |-> "AssignmentExpr", name |-> name, value |-> value]
CallExpr(callee, args) == [node |-> "CallExpr", callee |-> callee, args |-> args]

-----------------------------------------------------------------------------
(* Symbol table (symbol_table.py) *)

\* a function's return type before its first return (type = None)
NoType == "None"

Symbol(name, kind, type, params) ==
    [name |-> name, kind |-> kind, type |-> type, params |-> params]

\* resolve() found nothing (None)
NoSymbol == [name |-> <<>>, kind |-> "none", type |-> NoType, params |-> <<>>]

\* a Scope's symbols dictionary with nothing in it
EmptyScope == <<>>

\* SymbolTable.__init__: global_scope holds the functions; `scopes` is the
\* parent chain below it, outermost first, and its last element is
\* current_scope (current_scope is global_scope when the chain is empty)
NewSymbolTable == [global_scope |-> EmptyScope, scopes |-> <<>>]

\* the symbols dictionary of current_scope
CurrentScope(symtab) ==
    IF symtab.scopes = <<>> THEN symtab.global_scope
    ELSE symtab.scopes[Len(symtab.scopes)]

\* SymbolTable.push_scope
push_scope(symtab) == [symtab EXCEPT !.scopes = Append(@, EmptyScope)]

\* mutant of pop_scope: the current scope stays the current scope
PopKeepsScope(symtab) == [ok |-> symtab.scopes # <<>>, symtab |-> symtab]

\* SymbolTable.pop_scope: ok = FALSE is SymbolTableError
pop_scope(symtab) ==
    IF symtab.scopes = <<>> THEN [ok |-> FALSE, symtab |-> symtab]
    ELSE [ok |-> TRUE,
          symtab |-> [symtab EXCEPT !.scopes = SubSeq(@, 1, Len(@) - 1)]]

\* mutant of define_var: Scope.define without its redeclaration check
DefineVarOverwriting(symtab, name, var_type) ==
    LET sym == [name |-> name, kind |-> "var", type |-> var_type, params |-> <<>>]
    IN [ok |-> TRUE,
        symtab |-> IF symtab.scopes = <<>>
                   THEN [symtab EXCEPT !.global_scope = (name :> sym) @@ @]
                   ELSE [symtab EXCEPT
                             !.scopes[Len(symtab.scopes)] = (name :> sym) @@ @]]

\* SymbolTable.define_var (Scope.define on current_scope): ok = FALSE is
\* SymbolTableError
define_var(symtab, name, var_type) ==
    IF name \in DOMAIN CurrentScope(symtab) THEN [ok |-> FALSE, symtab |-> symtab]
    ELSE LET sym == Symbol(name, "var", var_type, <<>>)
         IN [ok |-> TRUE,
             symtab |-> IF symtab.scopes = <<>>
                        THEN [symtab EXCEPT !.global_scope = (name :> sym) @@ @]
                        ELSE [symtab EXCEPT
                                  !.scopes[Len(symtab.scopes)] = (name :> sym) @@ @]]

\* SymbolTable.define_func(name, return_type, params) (Scope.define on
\* global_scope): `params if params else []` is what the symbol holds
define_func(symtab, name, return_type, params) ==
    IF name \in DOMAIN symtab.global_scope THEN [ok |-> FALSE, symtab |-> symtab]
    ELSE [ok |-> TRUE,
          symtab |-> [symtab EXCEPT !.global_scope =
                          (name :> Symbol(name, "func", return_type, params)) @@ @]]

\* SymbolTable.resolve_global
resolve_global(symtab, name) ==
    IF name \in DOMAIN symtab.global_scope THEN symtab.global_scope[name]
    ELSE NoSymbol

\* Scope.resolve from scope number i of the chain outwards
RECURSIVE ResolveFrom(_, _, _)
ResolveFrom(symtab, i, name) ==
    IF i = 0 THEN resolve_global(symtab, name)
    ELSE IF name \in DOMAIN symtab.scopes[i] THEN symtab.scopes[i][name]
    ELSE ResolveFrom(symtab, i - 1, name)

\* SymbolTable.resolve
resolve(symtab, name) == ResolveFrom(symtab, Len(symtab.scopes), name)

\* SymbolTable.set_func_return_type (the function is always declared when
\* the analyzer calls it)
set_func_return_type(symtab, name, return_type) ==
    [symtab EXCEPT !.global_scope[name].type = return_type]

-----------------------------------------------------------------------------
(* Semantic analyzer (semantic.py) *)

\* the analyzer's fields; err = "SemanticError" once the exception is raised
NewAnalyzer ==
    [err |-> "none", symtab |-> NewSymbolTable,
     current_function |-> <<>>, current_return_type |-> NoType]

Raise(an) == [an EXCEPT !.err = "SemanticError"]
\* an expression's analysis: the analyzer afterwards and the type returned
Typed(an, type) == [an |-> an, type |-> type]

RECURSIVE _analyze_expr(_, _)
RECURSIVE AnalyzeArgsFrom(_, _, _, _)
RECURSIVE _analyze_stmt(_, _)
RECURSIVE AnalyzeStmtsFrom(_, _, _)

\* SemanticAnalyzer._lookup_var
_lookup_var(an, name) ==
    LET symbol == resolve(an.symtab, name)
    IN IF symbol.kind = "none" THEN Typed(Raise(an), NoType)
       ELSE Typed(an, symbol.type)

\* SemanticAnalyzer._analyze_unary
_analyze_unary(an, expr) ==
    LET o == _analyze_expr(an, expr.operand)
    IN IF o.an.err # "none" THEN o
       ELSE IF expr.op = "-"
       THEN IF _require_numeric(o.type) THEN o ELSE Typed(Raise(o.an), NoType)
       ELSE IF expr.op = "!"
       THEN IF _require_type(o.type, "bool") THEN Typed(o.an, "bool")
            ELSE Typed(Raise(o.an), NoType)
       ELSE Typed(Raise(o.an), NoType)

\* SemanticAnalyzer._analyze_binary
_analyze_binary(an, expr) ==
    LET l == _analyze_expr(an, expr.left)
        r == _analyze_expr(l.an, expr.right)
        left == l.type
        right == r.type
        op == expr.op
    IN IF l.an.err # "none" THEN l
       ELSE IF r.an.err # "none" THEN r
       ELSE IF op = "+" /\ (left = "string" \/ right = "string")
       THEN Typed(r.an, "string")
       ELSE IF op \in {"<", "<=", ">", ">=", "==", "!="}
       THEN IF _ensure_type_compatible(left, right) THEN Typed(r.an, "bool")
            ELSE Typed(Raise(r.an), NoType)
       ELSE IF op \in {"&&", "||"}
       THEN IF _require_type(left, "bool") /\ _require_type(right, "bool")
            THEN Typed(r.an, "bool")
            ELSE Typed(Raise(r.an), NoType)
       ELSE IF op \in {"+", "-", "*", "/", "%"}
       THEN IF ~_require_numeric(left) \/ ~_require_numeric(right)
            THEN Typed(Raise(r.an), NoType)
            ELSE IF op = "%" /\ (left # "int" \/ right # "int")
            THEN Typed(Raise(r.an), NoType)
            ELSE IF left = "float" \/ right = "float" THEN Typed(r.an, "float")
            ELSE Typed(r.an, "int")
       ELSE Typed(Raise(r.an), NoType)

\* SemanticAnalyzer._analyze_assignment
_analyze_assignment(an, expr) ==
    LET symbol == resolve(an.symtab, expr.name)
    IN IF symbol.kind = "none" THEN Typed(Raise(an), NoType)
       ELSE LET v == _analyze_expr(an, expr.value)
            IN IF v.an.err # "none" THEN v
               ELSE IF _ensure_type_compatible(symbol.type, v.type)
               THEN Typed(v.an, symbol.type)
               ELSE Typed(Raise(v.an), NoType)

\* the argument loop of _analyze_call from argument i on
AnalyzeArgsFrom(an, args, params, i) ==
    IF i > Len(args) \/ an.err # "none" THEN an
    ELSE LET a == _analyze_expr(an, args[i])
         IN IF a.an.err # "none" THEN a.an
            ELSE IF _ensure_type_compatible(params[i].param_type, a.type)
            THEN AnalyzeArgsFrom(a.an, args, params, i + 1)
            ELSE Raise(a.an)

\* SemanticAnalyzer._analyze_call
_analyze_call(an, expr) ==
    LET func == resolve_global(an.symtab, expr.callee)
    IN IF func.kind # "func" THEN Typed(Raise(an), NoType)
       ELSE IF Len(expr.args) # Len(func.params) THEN Typed(Raise(an), NoType)
       ELSE LET after == AnalyzeArgsFrom(an, expr.args, func.params, 1)
            IN IF after.err # "none" THEN Typed(after, NoType)
               ELSE Typed(after, IF func.type # NoType THEN func.type ELSE "void")

\* SemanticAnalyzer._analyze_expr
_analyze_expr(an, expr) ==
    IF an.err # "none" THEN Typed(an, NoType)
    ELSE CASE expr.node = "LiteralExpr" -> Typed(an, _infer_literal_type(expr.value))
           [] expr.node = "VarExpr" -> _lookup_var(an, expr.name)
           [] expr.node = "UnaryExpr" -> _analyze_unary(an, expr)
           [] expr.node = "BinaryExpr" -> _analyze_binary(an, expr)
           [] expr.node = "GroupingExpr" -> _analyze_expr(an, expr.expr)
           [] expr.node = "AssignmentExpr" -> _analyze_assignment(an, expr)
           [] expr.node = "CallExpr" -> _analyze_call(an, expr)
           [] OTHER -> Typed(Raise(an), NoType)

\* SemanticAnalyzer._declare_var
_declare_var(an, stmt) ==
    LET d == define_var(an.symtab, stmt.name, stmt.var_type)
    IN IF ~d.ok THEN Raise(an)
       ELSE LET an1 == [an EXCEPT !.symtab = d.symtab]
            IN IF stmt.initializer.node = "None" THEN an1
               ELSE LET i == _analyze_expr(an1, stmt.initializer)
                    IN IF i.an.err # "none" THEN i.an
                       ELSE IF _ensure_type_compatible(stmt.var_type, i.type) THEN i.an
                       ELSE Raise(i.an)

\* a condition that must be bool (the _require_type calls of if/while/do/for)
AnalyzeCondition(an, condition) ==
    LET c == _analyze_expr(an, condition)
    IN IF c.an.err # "none" THEN c.an
       ELSE IF _require_type(c.type, "bool") THEN c.an
       ELSE Raise(c.an)

\* SemanticAnalyzer._analyze_if
_analyze_if(an, stmt) ==
    LET c == AnalyzeCondition(an, stmt.condition)
        t == _analyze_stmt(c, stmt.then_branch)
    IN IF stmt.else_branch.node = "None" THEN t
       ELSE _analyze_stmt(t, stmt.else_branch)

\* SemanticAnalyzer._analyze_while
_analyze_while(an, stmt) ==
    _analyze_stmt(AnalyzeCondition(an, stmt.condition), stmt.body)

\* SemanticAnalyzer._analyze_do_while
_analyze_do_while(an, stmt) ==
    AnalyzeCondition(_analyze_stmt(an, stmt.body), stmt.condition)

\* symtab.pop_scope() at the end of a block, loop or function
PopScope(an) ==
    IF an.err # "none" THEN an
    ELSE LET q == pop_scope(an.symtab)
         IN IF q.ok THEN [an EXCEPT !.symtab = q.symtab]
            ELSE [an EXCEPT !.err = "SymbolTableError"]

\* SemanticAnalyzer._analyze_for
_analyze_for(an, stmt) ==
    LET an0 == [an EXCEPT !.symtab = push_scope(@)]
        an1 == IF stmt.init.node = "None" THEN an0 ELSE _analyze_stmt(an0, stmt.init)
        an2 == IF stmt.condition.node = "None" THEN an1
               ELSE AnalyzeCondition(an1, stmt.condition)
        an3 == IF stmt.update.node = "None" THEN an2
               ELSE _analyze_expr(an2, stmt.update).an
    IN PopScope(_analyze_stmt(an3, stmt.body))

\* SemanticAnalyzer._analyze_return
_analyze_return(an, stmt) ==
    LET v == IF stmt.value.node = "None" THEN Typed(an, "void")
             ELSE _analyze_expr(an, stmt.value)
    IN IF v.an.err # "none" THEN v.an
       ELSE IF v.an.current_return_type = NoType
       THEN [v.an EXCEPT
                 !.current_return_type = v.type,
                 !.symtab = set_func_return_type(@, v.an.current_function, v.type)]
       ELSE IF v.an.current_return_type # v.type THEN Raise(v.an)
       ELSE v.an

\* SemanticAnalyzer._analyze_read
_analyze_read(an, stmt) ==
    IF resolve(an.symtab, stmt.target.name).kind # "var" THEN Raise(an) ELSE an

\* the statement loop of a block from statement i on
AnalyzeStmtsFrom(an, statements, i) ==
    IF i > Len(statements) \/ an.err # "none" THEN an
    ELSE AnalyzeStmtsFrom(_analyze_stmt(an, statements[i]), statements, i + 1)

\* SemanticAnalyzer._analyze_stmt
_analyze_stmt(an, stmt) ==
    IF an.err # "none" THEN an
    ELSE CASE stmt.node = "BlockStmt" ->
                PopScope(AnalyzeStmtsFrom([an EXCEPT !.symtab = push_scope(@)],
                                          stmt.statements, 1))
           [] stmt.node = "VarDeclStmt" -> _declare_var(an, stmt)
           [] stmt.node = "ExprStmt" -> _analyze_expr(an, stmt.expr).an
           [] stmt.node = "IfStmt" -> _analyze_if(an, stmt)
           [] stmt.node = "WhileStmt" -> _analyze_while(an, stmt)
           [] stmt.node = "DoWhileStmt" -> _analyze_do_while(an, stmt)
           [] stmt.node = "ForStmt" -> _analyze_for(an, stmt)
           [] stmt.node = "PrintStmt" -> _analyze_expr(an, stmt.expr).an
           [] stmt.node = "ReadStmt" -> _analyze_read(an, stmt)
           [] stmt.node = "ReturnStmt" -> _analyze_return(an, stmt)
           [] OTHER -> Raise(an)

\* the parameter loop of _analyze_function from parameter i on
RECURSIVE DeclareParamsFrom(_, _, _)
DeclareParamsFrom(an, params, i) ==
    IF i > Len(params) \/ an.err # "none" THEN an
    ELSE LET d == define_var(an.symtab, params[i].name, params[i].param_type)
         IN IF ~d.ok THEN Raise(an)
            ELSE DeclareParamsFrom([an EXCEPT !.symtab = d.symtab], params, i + 1)

\* SemanticAnalyzer._analyze_function
_analyze_function(an, func) ==
    LET an0 == [an EXCEPT !.symtab = push_scope(@),
                          !.current_function = func.name,
                          !.current_return_type = NoType]
        an1 == DeclareParamsFrom(an0, func.params, 1)
        an2 == PopScope(_analyze_stmt(an1, func.body))
    IN IF an2.err # "none" THEN an2
       ELSE [an2 EXCEPT !.current_function = <<>>, !.current_return_type = NoType]

\* the first loop of analyze(): define_func(func.name, return_type=None)
RECURSIVE RegisterFrom(_, _, _)
RegisterFrom(an, functions, i) ==
    IF i > Len(functions) \/ an.err # "none" THEN an
    ELSE LET d == define_func(an.symtab, functions[i].name, NoType, <<>>)
         IN IF ~d.ok THEN Raise(an)
            ELSE RegisterFrom([an EXCEPT !.symtab = d.symtab], functions, i + 1)

\* the second loop of analyze()
RECURSIVE AnalyzeFunctionsFrom(_, _, _)
AnalyzeFunctionsFrom(an, functions, i) ==
    IF i > Len(functions) \/ an.err # "none" THEN an
    ELSE AnalyzeFunctionsFrom(_analyze_function(an, functions[i]), functions, i + 1)

\* SemanticAnalyzer.analyze on a fresh analyzer
analyze(functions) ==
    AnalyzeFunctionsFrom(RegisterFrom(NewAnalyzer, functions, 1), functions, 1)

-----------------------------------------------------------------------------
(* IR generator (ir_generator.py) *)

\* the label prefixes passed to new_label
L_then_ == <<"L", "_", "t", "h", "e", "n", "_">>
L_else_ == <<"L", "_", "e", "l", "s", "e", "_">>
L_end_ == <<"L", "_", "e", "n", "d", "_">>
L_while_begin_ == <<"L", "_", "w", "h", "i", "l", "e", "_", "b", "e", "g", "i", "n", "_">>
L_while_body_ == <<"L", "_", "w", "h", "i", "l", "e", "_", "b", "o", "d", "y", "_">>
L_while_end_ == <<"L", "_", "w", "h", "i", "l", "e", "_", "e", "n", "d", "_">>
L_do_body_ == <<"L", "_", "d", "o", "_", "b", "o", "d", "y", "_">>
L_do_end_ == <<"L", "_", "d", "o", "_", "e", "n", "d", "_">>
L_for_begin_ == <<"L", "_", "f", "o", "r", "_", "b", "e", "g", "i", "n", "_">>
L_for_body_ == <<"L", "_", "f", "o", "r", "_", "b", "o", "d", "y", "_">>
L_for_end_ == <<"L", "_", "f", "o", "r", "_", "e", "n", "d", "_">>

\* IRGenerator.__init__
NewGenerator == [instructions |-> <<>>, temp_count |-> 0, label_count |-> 0]

\* IRGenerator.new_temp: the generator afterwards and the name returned
new_temp(gen) ==
    [gen |-> [gen EXCEPT !.temp_count = @ + 1],
     name |-> <<"t">> \o NatStr(gen.temp_count)]

\* IRGenerator.new_label
new_label(gen, prefix) ==
    [gen |-> [gen EXCEPT !.label_count = @ + 1],
     name |-> prefix \o NatStr(gen.label_count)]

\* IRGenerator.emit
emit(gen, instr) == [gen EXCEPT !.instructions = Append(@, instr)]

RECURSIVE _gen_expr(_, _)
RECURSIVE GenArgsFrom(_, _, _)
RECURSIVE _gen_stmt(_, _)
RECURSIVE GenStmtsFrom(_, _, _)

\* the argument loop of _gen_call from argument i on
GenArgsFrom(gen, args, i) ==
    IF i > Len(args) THEN gen
    ELSE LET v == _gen_expr(gen, args[i])
         IN GenArgsFrom(emit(v.gen, ParamInstr(v.name)), args, i + 1)

\* IRGenerator._gen_call
_gen_call(gen, call) ==
    LET after == GenArgsFrom(gen, call.args, 1)
        t == new_temp(after)
    IN [gen |-> emit(t.gen, CallInstr(TRUE, t.name, call.callee, Len(call.args))),
        name |-> t.name]

\* IRGenerator._gen_expr: the generator afterwards and the operand returned
_gen_expr(gen, expr) ==
    CASE expr.node = "LiteralExpr" ->
           LET t == new_temp(gen)
           IN [gen |-> emit(t.gen, Assign(t.name, EncodeLiteral(expr.value))),
               name |-> t.name]
      [] expr.node = "VarExpr" -> [gen |-> gen, name |-> expr.name]
      [] expr.node = "GroupingExpr" -> _gen_expr(gen, expr.expr)
      [] expr.node = "UnaryExpr" ->
           LET operand == _gen_expr(gen, expr.operand)
               t == new_temp(operand.gen)
           IN [gen |-> emit(t.gen, UnaryOp(t.name, expr.op, operand.name)),
               name |-> t.name]
      [] expr.node = "BinaryExpr" ->
           LET left == _gen_expr(gen, expr.left)
               right == _gen_expr(left.gen, expr.right)
               t == new_temp(right.gen)
           IN [gen |-> emit(t.gen, BinaryOp(t.name, expr.op, left.name, right.name)),
               name |-> t.name]
      [] expr.node = "AssignmentExpr" ->
           LET val == _gen_expr(gen, expr.value)
           IN [gen |-> emit(val.gen, Assign(expr.name, val.name)),
               name |-> expr.name]
      [] expr.node = "CallExpr" -> _gen_call(gen, expr)

\* IRGenerator._gen_if
_gen_if(gen, stmt) ==
    LET cond == _gen_expr(gen, stmt.condition)
        thenL == new_label(cond.gen, L_then_)
        elseL == new_label(thenL.gen, L_else_)
        endL == new_label(elseL.gen, L_end_)
        g1 == emit(emit(emit(endL.gen, IfGoto(cond.name, thenL.name)),
                        Goto(elseL.name)), Label(thenL.name))
        g2 == emit(emit(_gen_stmt(g1, stmt.then_branch), Goto(endL.name)),
                   Label(elseL.name))
        g3 == IF stmt.else_branch.node # "None" THEN _gen_stmt(g2, stmt.else_branch)
              ELSE g2
    IN emit(g3, Label(endL.name))

\* mutant of _gen_while: the loop's end label is never emitted
GenWhileWithoutEnd(gen, stmt) ==
    LET begin == new_label(gen, L_while_begin_)
        body == new_label(begin.gen, L_while_body_)
        end == new_label(body.gen, L_while_end_)
        cond == _gen_expr(emit(end.gen, Label(begin.name)), stmt.condition)
        g1 == emit(emit(emit(cond.gen, IfGoto(cond.name, body.name)),
                        Goto(end.name)), Label(body.name))
    IN emit(_gen_stmt(g1, stmt.body), Goto(begin.name))

\* IRGenerator._gen_while
_gen_while(gen, stmt) ==
    LET begin == new_label(gen, L_while_begin_)
        body == new_label(begin.gen, L_while_body_)
        end == new_label(body.gen, L_while_end_)
        cond == _gen_expr(emit(end.gen, Label(begin.name)), stmt.condition)
        g1 == emit(emit(emit(cond.gen, IfGoto(cond.name, body.name)),
                        Goto(end.name)), Label(body.name))
    IN emit(emit(_gen_stmt(g1, stmt.body), Goto(begin.name)), Label(end.name))

\* IRGenerator._gen_do_while
_gen_do_while(gen, stmt) ==
    LET bodyL == new_label(gen, L_do_body_)
        endL == new_label(bodyL.gen, L_do_end_)
        g1 == _gen_stmt(emit(endL.gen, Label(bodyL.name)), stmt.body)
        cond == _gen_expr(g1, stmt.condition)
    IN emit(emit(cond.gen, IfGoto(cond.name, bodyL.name)), Label(endL.name))

\* mutant of _gen_for: the update is lowered before the body
GenForUpdateFirst(gen, stmt) ==
    LET g0 == IF stmt.init.node # "None" THEN _gen_stmt(gen, stmt.init) ELSE gen
        begin == new_label(g0, L_for_begin_)
        body == new_label(begin.gen, L_for_body_)
        end == new_label(body.gen, L_for_end_)
        g1 == emit(end.gen, Label(begin.name))
        g2 == IF stmt.condition.node # "None"
              THEN LET cond == _gen_expr(g1, stmt.condition)
                   IN emit(emit(cond.gen, IfGoto(cond.name, body.name)),
                           Goto(end.name))
              ELSE emit(g1, Goto(body.name))
        g3 == IF stmt.update.node # "None"
              THEN _gen_expr(emit(g2, Label(body.name)), stmt.update).gen
              ELSE emit(g2, Label(body.name))
        g4 == _gen_stmt(g3, stmt.body)
    IN emit(emit(g4, Goto(begin.name)), Label(end.name))

\* IRGenerator._gen_for
_gen_for(gen, stmt) ==
    LET g0 == IF stmt.init.node # "None" THEN _gen_stmt(gen, stmt.init) ELSE gen
        begin == new_label(g0, L_for_begin_)
        body == new_label(begin.gen, L_for_body_)
        end == new_label(body.gen, L_for_end_)
        g1 == emit(end.gen, Label(begin.name))
        g2 == IF stmt.condition.node # "None"
              THEN LET cond == _gen_expr(g1, stmt.condition)
                   IN emit(emit(cond.gen, IfGoto(cond.name, body.name)),
                           Goto(end.name))
              ELSE emit(g1, Goto(body.name))
        g3 == _gen_stmt(emit(g2, Label(body.name)), stmt.body)
        g4 == IF stmt.update.node # "None" THEN _gen_expr(g3, stmt.update).gen
              ELSE g3
    IN emit(emit(g4, Goto(begin.name)), Label(end.name))

\* the statement loop of a block from statement i on
GenStmtsFrom(gen, statements, i) ==
    IF i > Len(statements) THEN gen
    ELSE GenStmtsFrom(_gen_stmt(gen, statements[i]), statements, i + 1)

\* IRGenerator._gen_stmt
_gen_stmt(gen, stmt) ==
    CASE stmt.node = "BlockStmt" -> GenStmtsFrom(gen, stmt.statements, 1)
      [] stmt.node = "VarDeclStmt" ->
           IF stmt.initializer.node # "None"
           THEN LET src == _gen_expr(gen, stmt.initializer)
                IN emit(src.gen, Assign(stmt.name, src.name))
           ELSE gen
      [] stmt.node = "ExprStmt" -> _gen_expr(gen, stmt.expr).gen
      [] stmt.node = "IfStmt" -> _gen_if(gen, stmt)
      [] stmt.node = "WhileStmt" -> _gen_while(gen, stmt)
      [] stmt.node = "DoWhileStmt" -> _gen_do_while(gen, stmt)
      [] stmt.node = "ForStmt" -> _gen_for(gen, stmt)
      [] stmt.node = "PrintStmt" ->
           LET val == _gen_expr(gen, stmt.expr)
           IN emit(val.gen, PrintInstr(val.name))
      [] stmt.node = "ReadStmt" -> emit(gen, ReadInstr(stmt.target.name))
      [] stmt.node = "ReturnStmt" ->
           IF stmt.value.node # "None"
           THEN LET val == _gen_expr(gen, stmt.value)
                IN emit(val.gen, ReturnInstr(TRUE, val.name))
           ELSE emit(gen, ReturnInstr(FALSE, <<>>))

\* IRGenerator._gen_function
_gen_function(gen, func) == _gen_stmt(emit(gen, FuncLabel(func.name)), func.body)

\* the loop of IRGenerator.generate from function i on
RECURSIVE GenFunctionsFrom(_, _, _)
GenFunctionsFrom(gen, functions, i) ==
    IF i > Len(functions) THEN gen
    ELSE GenFunctionsFrom(_gen_function(gen, functions[i]), functions, i + 1)

\* generate_ir: IRGenerator().generate(program).instructions
generate_ir(functions) == GenFunctionsFrom(NewGenerator, functions, 1).instructions

-----------------------------------------------------------------------------
(* Virtual machine (vm.py).  Instruction indices are positions 1..Len in    *)
(* the list, one more than the code's: the loop runs while ip <= Len.       *)

\* Frame
Frame(func_name, env, return_ip, has_ret_dest, ret_dest) ==
    [func_name |-> func_name, env |-> env, return_ip |-> return_ip,
     has_ret_dest |-> has_ret_dest, ret_dest |-> ret_dest]

\* a dictionary filled by a loop over a list: keys[i] is <<key>> when item i
\* stores under key, <<>> when it stores nothing; each key is bound to the
\* last index that stored under it
LastIndex(keys) ==
    LET idx == {i \in 1..Len(keys) : keys[i] # <<>>}
    IN [name \in {keys[i][1] : i \in idx} |->
           CHOOSE i \in idx :
               keys[i][1] = name /\ \A j \in idx : keys[j][1] = name => j <= i]

\* VirtualMachine._index_labels for one class of instruction
_index_labels(instructions, kind) ==
    LastIndex([i \in 1..Len(instructions) |->
                  IF instructions[i].kind = kind THEN <<instructions[i].name>>
                  ELSE <<>>])

\* main(): func_param_names = {f.name: [p.name for p in f.params] ...}
FuncParamNames(functions) ==
    LET at == LastIndex([i \in 1..Len(functions) |-> <<functions[i].name>>])
    IN [name \in DOMAIN at |->
           [j \in 1..Len(functions[at[name]].params) |->
               functions[at[name]].params[j].name]]

\* VirtualMachine.__init__; status is the position of run(): "new" before
\* the call, "running" in the loop, "halted" returned, "error" raised
VirtualMachine(instructions, func_param_names) ==
    [instructions |-> instructions,
     labels |-> _index_labels(instructions, "Label"),
     func_labels |-> _index_labels(instructions, "FuncLabel"),
     func_params |-> func_param_names,
     frames |-> <<>>,
     current_func |-> <<>>,
     env |-> <<>>,
     ip |-> 1,
     arg_stack |-> <<>>,
     return_value |-> NoneV,
     stdout |-> <<>>,
     status |-> "new",
     err |-> "none",
     steps |-> 0]

\* an exception leaving run()
Fail(m, kind) == [m EXCEPT !.status = "error", !.err = kind]

\* VirtualMachine._set followed by the default `self.ip += 1`
_set(m, name, value) ==
    [m EXCEPT !.env = (name :> value) @@ @, !.ip = @ + 1]

\* run() up to the loop: main is looked up and entered
RunStart(m) ==
    IF tmain \notin DOMAIN m.func_labels THEN Fail(m, "VMError")
    ELSE [m EXCEPT !.current_func = tmain, !.env = <<>>,
                   !.ip = m.func_labels[tmain] + 1, !.status = "running"]

\* input() returned nothing: end of the input stream (EOFError)
EOF == <<"EOF">>

\* str.strip() for blanks
RECURSIVE strip(_)
strip(s) ==
    IF s # <<>> /\ Head(s) = " " THEN strip(Tail(s))
    ELSE IF s # <<>> /\ s[Len(s)] = " " THEN strip(SubSeq(s, 1, Len(s) - 1))
    ELSE s

\* the ReadInstr branch: the value stored for the line raw
ReadValue(raw) ==
    LET text == strip(raw)
        v == IF Contains(text, ".") \/ Contains(text, "e") \/ Contains(text, "E")
             THEN PyFloat(text) ELSE PyInt(text)
    IN IF v.ok THEN v.v ELSE StrV(text)

\* the CallInstr branch
StepCall(m, ins) ==
    LET arg_count == ins.arg_count
        n == Len(m.arg_stack)
        \* arg_stack[-arg_count:] and arg_stack[:-arg_count]; -0 is 0
        args == IF arg_count = 0 THEN m.arg_stack
                ELSE SubSeq(m.arg_stack, n - arg_count + 1, n)
        rest == IF arg_count = 0 THEN <<>>
                ELSE SubSeq(m.arg_stack, 1, n - arg_count)
        param_names == IF ins.callee \in DOMAIN m.func_params
                       THEN m.func_params[ins.callee] ELSE <<>>
        pairs == IF Len(param_names) < Len(args) THEN Len(param_names) ELSE Len(args)
        at == LastIndex([i \in 1..pairs |-> <<param_names[i]>>])
        new_env == [name \in DOMAIN at |-> args[at[name]]]
    IN IF ins.callee \notin DOMAIN m.func_labels THEN Fail(m, "VMError")
       ELSE IF arg_count > n THEN Fail(m, "VMError")
       ELSE IF Len(param_names) # arg_count
       THEN Fail([m EXCEPT !.arg_stack = rest], "VMError")
       ELSE [m EXCEPT
                !.arg_stack = rest,
                !.frames = Append(@, Frame(m.current_func, m.env, m.ip + 1,
                                           ins.has_dest, ins.dest)),
                !.env = new_env,
                !.current_func = ins.callee,
                !.ip = m.func_labels[ins.callee] + 1]

\* a machine whose Return leaves the callee's environment in place, adding
\* the returned value to it
StepReturnKeepingEnv(m, ins) ==
    LET rv == IF ins.has_value THEN _get(m.env, ins.value) ELSE Ok(NoneV)
        frame == m.frames[Len(m.frames)]
    IN IF ~rv.ok THEN Fail(m, rv.err)
       ELSE IF m.frames = <<>>
       THEN [m EXCEPT !.return_value = rv.v, !.status = "halted"]
       ELSE [m EXCEPT
                !.frames = SubSeq(@, 1, Len(@) - 1),
                !.env = IF frame.has_ret_dest /\ rv.v.k # "none"
                        THEN (frame.ret_dest :> rv.v) @@ m.env
                        ELSE m.env,
                !.current_func = frame.func_name,
                !.ip = frame.return_ip]

\* the ReturnInstr branch
StepReturn(m, ins) ==
    LET rv == IF ins.has_value THEN _get(m.env, ins.value) ELSE Ok(NoneV)
        frame == m.frames[Len(m.frames)]
    IN IF ~rv.ok THEN Fail(m, rv.err)
       ELSE IF m.frames = <<>>
       THEN [m EXCEPT !.return_value = rv.v, !.status = "halted"]
       ELSE [m EXCEPT
                !.frames = SubSeq(@, 1, Len(@) - 1),
                !.env = IF frame.has_ret_dest /\ rv.v.k # "none"
                        THEN (frame.ret_dest :> rv.v) @@ frame.env
                        ELSE frame.env,
                !.current_func = frame.func_name,
                !.ip = frame.return_ip]

\* a machine that leaves the right operand of && and || undecoded when the
\* left operand decides the result
StepBinaryShortCircuit(m, ins) ==
    LET a == _get(m.env, ins.left)
        b == _get(m.env, ins.right)
        r == VMBinary(ins.op, a.v, b.v)
    IN IF ~a.ok THEN Fail(m, a.err)
       ELSE IF ins.op = "&&" /\ IsNum(a.v) /\ NumP(a.v) = 0
       THEN _set(m, ins.dest, IntV(0))
       ELSE IF ins.op = "||" /\ IsNum(a.v) /\ NumP(a.v) # 0
       THEN _set(m, ins.dest, IntV(1))
       ELSE IF ~b.ok THEN Fail(m, b.err)
       ELSE IF r.ok THEN _set(m, ins.dest, r.v)
       ELSE Fail(m, r.err)

\* the BinaryOp branch: both operands are decoded, then the operator applied
StepBinary(m, ins) ==
    LET a == _get(m.env, ins.left)
        b == _get(m.env, ins.right)
        r == VMBinary(ins.op, a.v, b.v)
    IN IF ~a.ok THEN Fail(m, a.err)
       ELSE IF ~b.ok THEN Fail(m, b.err)
       ELSE IF r.ok THEN _set(m, ins.dest, r.v)
       ELSE Fail(m, r.err)

\* one iteration of the loop of VirtualMachine.run; raw is the line input()
\* returns if the instruction reads
Step(m, raw) ==
    LET ins == m.instructions[m.ip]
        next == [m EXCEPT !.steps = @ + 1]
    IN IF m.ip > Len(m.instructions) THEN [m EXCEPT !.status = "halted"]
       ELSE CASE ins.kind \in {"Label", "FuncLabel"} -> [next EXCEPT !.ip = @ + 1]
              [] ins.kind = "Assign" ->
                   LET val == _get(m.env, ins.src)
                   IN IF val.ok THEN _set(next, ins.dest, val.v)
                      ELSE Fail(next, val.err)
              [] ins.kind = "BinaryOp" -> StepBinary(next, ins)
              [] ins.kind = "UnaryOp" ->
                   LET a == _get(m.env, ins.operand)
                       r == VMUnary(ins.op, a.v)
                   IN IF ~a.ok THEN Fail(next, a.err)
                      ELSE IF r.ok THEN _set(next, ins.dest, r.v)
                      ELSE Fail(next, r.err)
              [] ins.kind = "Goto" ->
                   IF ins.target \notin DOMAIN m.labels THEN Fail(next, "VMError")
                   ELSE [next EXCEPT !.ip = m.labels[ins.target]]
              [] ins.kind = "IfGoto" ->
                   LET cond == _get(m.env, ins.condition)
                   IN IF ~cond.ok THEN Fail(next, cond.err)
                      ELSE IF IsNum(cond.v) /\ NumP(cond.v) = 0
                      THEN [next EXCEPT !.ip = @ + 1]
                      ELSE IF ins.target \notin DOMAIN m.labels
                      THEN Fail(next, "VMError")
                      ELSE [next EXCEPT !.ip = m.labels[ins.target]]
              [] ins.kind = "PrintInstr" ->
                   LET val == _get(m.env, ins.value)
                   IN IF val.ok
                      THEN [next EXCEPT !.stdout = Append(@, PyStr(val.v)), !.ip = @ + 1]
                      ELSE Fail(next, val.err)
              [] ins.kind = "ReadInstr" ->
                   IF raw = EOF THEN Fail(next, "EOFError")
                   ELSE _set(next, ins.dest, ReadValue(raw))
              [] ins.kind = "ParamInstr" ->
                   LET val == _get(m.env, ins.value)
                   IN IF val.ok
                      THEN [next EXCEPT !.arg_stack = Append(@, val.v), !.ip = @ + 1]
                      ELSE Fail(next, val.err)
              [] ins.kind = "CallInstr" -> StepCall(next, ins)
              [] ins.kind = "ReturnInstr" -> StepReturn(next, ins)
              [] OTHER -> Fail(next, "VMError")

-----------------------------------------------------------------------------
(* Parser (parser.py): helpers and expressions *)

\* lexer.Token
Token(lexeme, line, column) == [lexeme |-> lexeme, line |-> line, column |-> column]

\* lexemes the parser compares with
tEOF == <<"E", "O", "F">>
tfunc == <<"f", "u", "n", "c">>
tint == <<"i", "n", "t">>
tfloat == <<"f", "l", "o", "a", "t">>
tbool == <<"b", "o", "o", "l">>
tstring == <<"s", "t", "r", "i", "n", "g">>
tif == <<"i", "f">>
telse == <<"e", "l", "s", "e">>
twhile == <<"w", "h", "i", "l", "e">>
tdo == <<"d", "o">>
tfor == <<"f", "o", "r">>
treturn == <<"r", "e", "t", "u", "r", "n">>
tprint == <<"p", "r", "i", "n", "t">>
tread == <<"r", "e", "a", "d">>
ttrue == <<"t", "r", "u", "e">>
tfalse == <<"f", "a", "l", "s", "e">>

\* Parser.keywords
keywords ==
    { tfunc, tint, tfloat, tbool, tstring, tif, telse, twhile, tdo, tfor,
      treturn, tprint, tread, ttrue, tfalse }

TypeLexemes == {tint, tfloat, tbool, tstring}

\* str.isalpha() on one ASCII character
isalpha(c) ==
    c \in { "a", "b", "c", "d", "e", "f", "g", "h", "i", "j", "k", "l", "m",
            "n", "o", "p", "q", "r", "s", "t", "u", "v", "w", "x", "y", "z",
            "A", "B", "C", "D", "E", "F", "G", "H", "I", "J", "K", "L", "M",
            "N", "O", "P", "Q", "R", "S", "T", "U", "V", "W", "X", "Y", "Z" }

\* the lexeme of an operator or a type as the AST and the later passes hold
\* it (the same Python str; the model writes operators and type tags as
\* strings and every other text as a sequence of characters)
Text(lexeme) ==
    CASE Len(lexeme) = 1 -> lexeme[1]
      [] lexeme = <<"=", "=">> -> "=="
      [] lexeme = <<"!", "=">> -> "!="
      [] lexeme = <<"<", "=">> -> "<="
      [] lexeme = <<">", "=">> -> ">="
      [] lexeme = <<"&", "&">> -> "&&"
      [] lexeme = <<"|", "|">> -> "||"
      [] lexeme = tint -> "int"
      [] lexeme = tfloat -> "float"
      [] lexeme = tbool -> "bool"
      [] lexeme = tstring -> "string"

\* Parser.__init__: `current` counts the tokens consumed
Parser(toks) == [tokens |-> toks, current |-> 0]

\* Parser.peek
peek(p) == p.tokens[p.current + 1]
\* Parser.is_at_end
is_at_end(p) == peek(p).lexeme = tEOF
\* Parser.previous: tokens[current - 1], which is the last token when
\* current is 0
previous(p) == IF p.current = 0 THEN p.tokens[Len(p.tokens)] ELSE p.tokens[p.current]
\* Parser.advance: the parser afterwards (the token returned is previous())
advance(p) == IF ~is_at_end(p) THEN [p EXCEPT !.current = @ + 1] ELSE p
\* Parser.check
check(p, lex) == IF is_at_end(p) THEN FALSE ELSE peek(p).lexeme = lex
\* Parser.match(*lexemes): whether it matched and the parser afterwards
match(p, lexemes) ==
    IF is_at_end(p) THEN [matched |-> FALSE, p |-> p]
    ELSE IF peek(p).lexeme \in lexemes THEN [matched |-> TRUE, p |-> advance(p)]
    ELSE [matched |-> FALSE, p |-> p]

\* a parsing method returned `node` (and the token `tok`, for the consume
\* methods), leaving the parser as p
Parsed(p, node, tok) == [ok |-> TRUE, p |-> p, node |-> node, tok |-> tok]
\* Parser.error raised: ParseError carrying tok (its line and column)
error(p, tok) == [ok |-> FALSE, p |-> p, node |-> NoNode, tok |-> tok]

\* Parser.consume
consume(p, lex) ==
    IF check(p, lex) THEN Parsed(advance(p), NoNode, previous(advance(p)))
    ELSE error(p, peek(p))

\* Parser.consume_identifier
consume_identifier(p) ==
    LET tok == peek(p)
        lex == tok.lexeme
    IN IF lex \notin keywords /\ (isalpha(lex[1]) \/ lex[1] = "_")
       THEN Parsed(advance(p), NoNode, tok)
       ELSE error(p, tok)

\* Parser.consume_type
consume_type(p) ==
    LET tok == peek(p)
    IN IF tok.lexeme \in TypeLexemes THEN Parsed(advance(p), NoNode, tok)
       ELSE error(p, tok)

RECURSIVE assignment(_)
RECURSIVE BinaryLoop(_, _)
RECURSIVE Operand(_, _)
RECURSIVE unary(_)
RECURSIVE primary(_)
RECURSIVE ArgumentsFrom(_, _)

\* Parser.expression
expression(p) == assignment(p)

\* a parser whose additive loop matches * / % and whose multiplicative loop
\* matches + -
LevelOperatorsSwapped(level) ==
    CASE level = "or_expr" -> {<<"|", "|">>}
      [] level = "and_expr" -> {<<"&", "&">>}
      [] level = "equality" -> {<<"=", "=">>, <<"!", "=">>}
      [] level = "comparison" -> {<<"<">>, <<"<", "=">>, <<">">>, <<">", "=">>}
      [] level = "term" -> {<<"*">>, <<"/">>, <<"%">>}
      [] level = "factor" -> {<<"+">>, <<"-">>}

\* the lexemes matched by the loop of each binary level
LevelOperators(level) ==
    CASE level = "or_expr" -> {<<"|", "|">>}
      [] level = "and_expr" -> {<<"&", "&">>}
      [] level = "equality" -> {<<"=", "=">>, <<"!", "=">>}
      [] level = "comparison" -> {<<"<">>, <<"<", "=">>, <<">">>, <<">", "=">>}
      [] level = "term" -> {<<"+">>, <<"-">>}
      [] level = "factor" -> {<<"*">>, <<"/">>, <<"%">>}

\* the loop of a binary level after its right operand: the operation joins
\* what was parsed so far and the loop goes on
BinaryJoined(r, op, right, level) ==
    IF ~right.ok THEN right
    ELSE BinaryLoop(Parsed(right.p, BinaryExpr(r.node, Text(op), right.node),
                           right.tok),
                    level)

\* the `while self.match(...)` loop of a binary level, entered with the
\* expression r parsed so far
BinaryLoop(r, level) ==
    IF ~r.ok THEN r
    ELSE LET m == match(r.p, LevelOperators(level))
         IN IF ~m.matched THEN r
            ELSE BinaryJoined(r, previous(m.p).lexeme, Operand(level, m.p), level)

\* Parser.factor
factor(p) == BinaryLoop(unary(p), "factor")
\* Parser.term
term(p) == BinaryLoop(factor(p), "term")
\* Parser.comparison
comparison(p) == BinaryLoop(term(p), "comparison")
\* Parser.equality
equality(p) == BinaryLoop(comparison(p), "equality")
\* Parser.and_expr
and_expr(p) == BinaryLoop(equality(p), "and_expr")
\* Parser.or_expr
or_expr(p) == BinaryLoop(and_expr(p), "or_expr")

\* the method each binary level calls for its operands
Operand(level, p) ==
    CASE level = "or_expr" -> and_expr(p)
      [] level = "and_expr" -> equality(p)
      [] level = "equality" -> comparison(p)
      [] level = "comparison" -> term(p)
      [] level = "term" -> factor(p)
      [] level = "factor" -> unary(p)

\* Parser.assignment after `value = self.assignment()`
Stored(expr, value) ==
    IF ~value.ok THEN value
    ELSE IF expr.node.node = "VarExpr"
    THEN Parsed(value.p, AssignmentExpr(expr.node.name, value.node), value.tok)
    ELSE error(value.p, previous(value.p))

\* Parser.assignment after `expr = self.or_expr()`
Assigned(expr) ==
    IF ~expr.ok THEN expr
    ELSE LET m == match(expr.p, {<<"=">>})
         IN IF ~m.matched THEN expr ELSE Stored(expr, assignment(m.p))

\* the same two steps where a parenthesised variable is a target as well
GroupingStored(expr, value) ==
    IF ~value.ok THEN value
    ELSE IF expr.node.node = "VarExpr"
    THEN Parsed(value.p, AssignmentExpr(expr.node.name, value.node), value.tok)
    ELSE IF expr.node.node = "GroupingExpr" /\ expr.node.expr.node = "VarExpr"
    THEN Parsed(value.p, AssignmentExpr(expr.node.expr.name, value.node), value.tok)
    ELSE error(value.p, previous(value.p))

GroupingAssigned(expr) ==
    IF ~expr.ok THEN expr
    ELSE LET m == match(expr.p, {<<"=">>})
         IN IF ~m.matched THEN expr ELSE GroupingStored(expr, assignment(m.p))

\* an assignment that also accepts a parenthesised variable on its left
AssignmentThroughGrouping(p) == GroupingAssigned(or_expr(p))

\* Parser.assignment
assignment(p) == Assigned(or_expr(p))

\* Parser.unary after `right = self.unary()`
Negated(op, right) ==
    IF ~right.ok THEN right
    ELSE Parsed(right.p, UnaryExpr(Text(op), right.node), right.tok)

\* Parser.unary
unary(p) ==
    LET m == match(p, {<<"!">>, <<"-">>})
    IN IF m.matched THEN Negated(previous(m.p).lexeme, unary(m.p))
       ELSE primary(p)

\* the argument loop of a call in Parser.primary, entered with the result r
\* of the last argument and the arguments before it
ArgumentsFrom(r, args) ==
    IF ~r.ok THEN r
    ELSE LET m == match(r.p, {<<",">>})
         IN IF m.matched THEN ArgumentsFrom(expression(m.p), Append(args, r.node))
            ELSE Parsed(r.p, Append(args, r.node), r.tok)

\* Parser.primary after the expression in parentheses
Grouped(expr) ==
    IF ~expr.ok THEN expr
    ELSE LET c == consume(expr.p, <<")">>)
         IN IF ~c.ok THEN c ELSE Parsed(c.p, GroupingExpr(expr.node), c.tok)

\* Parser.primary after the arguments of a call of lex
Called(lex, args) ==
    IF ~args.ok THEN args
    ELSE LET c == consume(args.p, <<")">>)
         IN IF ~c.ok THEN c ELSE Parsed(c.p, CallExpr(lex, args.node), c.tok)

\* Parser.primary
primary(p) ==
    IF is_at_end(p) THEN error(p, peek(p))
    ELSE
    LET tok == peek(p)
        lex == tok.lexeme
    IN IF isdigit(ReplaceFirst(lex, "."))
       THEN Parsed(advance(p),
                   IF Contains(lex, ".") THEN LiteralExpr(PyFloat(lex).v)
                   ELSE LiteralExpr(PyInt(lex).v),
                   tok)
       ELSE IF lex = ttrue THEN Parsed(advance(p), LiteralExpr(BoolV(TRUE)), tok)
       ELSE IF lex = tfalse THEN Parsed(advance(p), LiteralExpr(BoolV(FALSE)), tok)
       ELSE IF startswith(lex, Quote) /\ endswith(lex, Quote)
       THEN Parsed(advance(p), LiteralExpr(StrV(SubSeq(lex, 2, Len(lex) - 1))), tok)
       ELSE IF match(p, {<<"(">>}).matched
       THEN Grouped(expression(match(p, {<<"(">>}).p))
       ELSE IF lex \notin keywords /\ (isalpha(lex[1]) \/ lex[1] = "_")
       THEN LET m == match(advance(p), {<<"(">>})
            IN IF ~m.matched THEN Parsed(advance(p), VarExpr(lex), tok)
               ELSE Called(lex,
                           IF check(m.p, <<")">>) THEN Parsed(m.p, <<>>, tok)
                           ELSE ArgumentsFrom(expression(m.p), <<>>))
       ELSE error(p, tok)

-----------------------------------------------------------------------------
(* Parser (parser.py): statements, functions and the program *)

RECURSIVE statement(_)
RECURSIVE declaration(_)
RECURSIVE BlockFrom(_, _)

\* the current token is the name of a type (the four self.check calls)
CheckType(p) == \E lex \in TypeLexemes : check(p, lex)

\* Parser.var_declaration after the initializer, if any
Declared(var_type, name, init) ==
    IF ~init.ok THEN init
    ELSE LET c == consume(init.p, <<";">>)
         IN IF ~c.ok THEN c
            ELSE Parsed(c.p, VarDeclStmt(var_type, name, init.node), c.tok)

\* Parser.var_declaration
var_declaration(p) ==
    LET p1 == advance(p)
        name == consume_identifier(p1)
    IN IF ~name.ok THEN name
       ELSE LET m == match(name.p, {<<"=">>})
            IN Declared(Text(previous(p1).lexeme), name.tok.lexeme,
                        IF m.matched THEN expression(m.p)
                        ELSE Parsed(name.p, NoNode, name.tok))

\* Parser.declaration
declaration(p) == IF CheckType(p) THEN var_declaration(p) ELSE statement(p)

\* the statement loop of Parser.block after one declaration
BlockAdded(d, stmts) ==
    IF ~d.ok THEN d ELSE BlockFrom(d.p, Append(stmts, d.node))

\* the statement loop of Parser.block and its closing brace, entered with
\* the statements parsed so far
BlockFrom(p, stmts) ==
    IF ~check(p, <<"}">>) /\ ~is_at_end(p)
    THEN BlockAdded(declaration(p), stmts)
    ELSE LET c == consume(p, <<"}">>)
         IN IF ~c.ok THEN c ELSE Parsed(c.p, BlockStmt(stmts), c.tok)

\* Parser.block
block(p) ==
    LET c == consume(p, <<"{">>)
    IN IF ~c.ok THEN c ELSE BlockFrom(c.p, <<>>)

\* a condition after its expression
ConditionClosed(cond) ==
    IF ~cond.ok THEN cond
    ELSE LET c == consume(cond.p, <<")">>)
         IN IF ~c.ok THEN c ELSE Parsed(c.p, cond.node, c.tok)

\* "(" expression ")" as if, while and do-while parse their condition
Condition(p) ==
    LET o == consume(p, <<"(">>)
    IN IF ~o.ok THEN o ELSE ConditionClosed(expression(o.p))

\* Parser.if_statement after the else branch, the then branch, the condition
IfElse(cond, then_b, else_b) ==
    IF ~else_b.ok THEN else_b
    ELSE Parsed(else_b.p, IfStmt(cond.node, then_b.node, else_b.node), else_b.tok)

IfThen(cond, then_b) ==
    IF ~then_b.ok THEN then_b
    ELSE LET m == match(then_b.p, {telse})
         IN IF ~m.matched
            THEN Parsed(then_b.p, IfStmt(cond.node, then_b.node, NoNode), then_b.tok)
            ELSE IfElse(cond, then_b, statement(m.p))

IfCondition(cond) ==
    IF ~cond.ok THEN cond ELSE IfThen(cond, statement(cond.p))

\* Parser.if_statement
if_statement(p) == IfCondition(Condition(p))

\* Parser.while_statement after the body, the condition
WhileBody(cond, body) ==
    IF ~body.ok THEN body
    ELSE Parsed(body.p, WhileStmt(cond.node, body.node), body.tok)

WhileCondition(cond) ==
    IF ~cond.ok THEN cond ELSE WhileBody(cond, statement(cond.p))

\* Parser.while_statement
while_statement(p) == WhileCondition(Condition(p))

\* Parser.do_while_statement after the condition, the body
DoWhileCondition(body, cond) ==
    IF ~cond.ok THEN cond
    ELSE LET c == consume(cond.p, <<";">>)
         IN IF ~c.ok THEN c
            ELSE Parsed(c.p, DoWhileStmt(body.node, cond.node), c.tok)

DoWhileBody(body) ==
    IF ~body.ok THEN body
    ELSE LET w == consume(body.p, twhile)
         IN IF ~w.ok THEN w ELSE DoWhileCondition(body, Condition(w.p))

\* Parser.do_while_statement
do_while_statement(p) == DoWhileBody(statement(p))

\* an optional expression after the expression
ExpressionFollowed(e, lex, consumed) ==
    IF ~e.ok THEN e
    ELSE IF ~consumed THEN e
    ELSE LET c == consume(e.p, lex)
         IN IF ~c.ok THEN c ELSE Parsed(c.p, e.node, c.tok)

\* an expression followed by the lexeme `lex`, or nothing when `lex` is the
\* current token already (`consumed` tells whether the lexeme is consumed
\* in that case as well: it is for the two ';' of a for, not for its ')')
OptionalExpression(p, lex, consumed) ==
    IF ~check(p, lex) THEN ExpressionFollowed(expression(p), lex, consumed)
    ELSE IF consumed
    THEN LET c == consume(p, lex)
         IN IF ~c.ok THEN c ELSE Parsed(c.p, NoNode, c.tok)
    ELSE Parsed(p, NoNode, peek(p))

\* Parser.for_statement: an initializer that is an expression is wrapped in
\* an ExprStmt
ForInitStatement(e) ==
    IF e.ok /\ e.node.node # "None" THEN Parsed(e.p, ExprStmt(e.node), e.tok)
    ELSE e

\* Parser.for_statement after the body, the update, the condition, the
\* initializer
ForBody(init, cond, update, body) ==
    IF ~body.ok THEN body
    ELSE Parsed(body.p, ForStmt(init.node, cond.node, update.node, body.node),
                body.tok)

ForUpdate(init, cond, update) ==
    IF ~update.ok THEN update
    ELSE LET c == consume(update.p, <<")">>)
         IN IF ~c.ok THEN c ELSE ForBody(init, cond, update, statement(c.p))

ForCondition(init, cond) ==
    IF ~cond.ok THEN cond
    ELSE ForUpdate(init, cond, OptionalExpression(cond.p, <<")">>, FALSE))

ForInit(init) ==
    IF ~init.ok THEN init
    ELSE ForCondition(init, OptionalExpression(init.p, <<";">>, TRUE))

\* Parser.for_statement
for_statement(p) ==
    LET o == consume(p, <<"(">>)
    IN IF ~o.ok THEN o
       ELSE ForInit(IF ~check(o.p, <<";">>) /\ CheckType(o.p)
                    THEN var_declaration(o.p)
                    ELSE ForInitStatement(OptionalExpression(o.p, <<";">>, TRUE)))

\* Parser.print_statement after the expression
PrintEnded(e) ==
    IF ~e.ok THEN e
    ELSE LET c == consume(e.p, <<";">>)
         IN IF ~c.ok THEN c ELSE Parsed(c.p, PrintStmt(e.node), c.tok)

\* Parser.print_statement
print_statement(p) == PrintEnded(expression(p))

\* Parser.read_statement
read_statement(p) ==
    LET name == consume_identifier(p)
    IN IF ~name.ok THEN name
       ELSE LET c == consume(name.p, <<";">>)
            IN IF ~c.ok THEN c
               ELSE Parsed(c.p, ReadStmt(VarExpr(name.tok.lexeme)), c.tok)

\* Parser.return_statement after the value, if any
ReturnEnded(val) ==
    IF ~val.ok THEN val
    ELSE LET c == consume(val.p, <<";">>)
         IN IF ~c.ok THEN c ELSE Parsed(c.p, ReturnStmt(val.node), c.tok)

\* Parser.return_statement
return_statement(p) == ReturnEnded(OptionalExpression(p, <<";">>, FALSE))

\* Parser.expr_statement after the expression
ExprEnded(e) ==
    IF ~e.ok THEN e
    ELSE LET c == consume(e.p, <<";">>)
         IN IF ~c.ok THEN c ELSE Parsed(c.p, ExprStmt(e.node), c.tok)

\* Parser.expr_statement
expr_statement(p) == ExprEnded(expression(p))

\* Parser.statement
statement(p) ==
    IF check(p, <<"{">>) THEN block(p)
    ELSE IF match(p, {tif}).matched THEN if_statement(advance(p))
    ELSE IF match(p, {twhile}).matched THEN while_statement(advance(p))
    ELSE IF match(p, {tdo}).matched THEN do_while_statement(advance(p))
    ELSE IF match(p, {tfor}).matched THEN for_statement(advance(p))
    ELSE IF match(p, {tprint}).matched THEN print_statement(advance(p))
    ELSE IF match(p, {tread}).matched THEN read_statement(advance(p))
    ELSE IF match(p, {treturn}).matched THEN return_statement(advance(p))
    ELSE expr_statement(p)

\* Parser.param
param(p) ==
    LET type_tok == consume_type(p)
    IN IF ~type_tok.ok THEN type_tok
       ELSE LET name_tok == consume_identifier(type_tok.p)
            IN IF ~name_tok.ok THEN name_tok
               ELSE Parsed(name_tok.p,
                           Param(Text(type_tok.tok.lexeme), name_tok.tok.lexeme),
                           name_tok.tok)

\* Parser.param_list: the loop, entered with the result r of the last param
RECURSIVE ParamsFrom(_, _)
ParamsFrom(r, params) ==
    IF ~r.ok THEN r
    ELSE LET m == match(r.p, {<<",">>})
         IN IF m.matched THEN ParamsFrom(param(m.p), Append(params, r.node))
            ELSE Parsed(r.p, Append(params, r.node), r.tok)

\* Parser.param_list
param_list(p) == ParamsFrom(param(p), <<>>)

\* Parser.function_decl after the body, the parameters
FunctionBody(name, params, body) ==
    IF ~body.ok THEN body
    ELSE Parsed(body.p, FunctionDecl(name, params.node, body.node), body.tok)

FunctionParams(name, params) ==
    IF ~params.ok THEN params
    ELSE LET c == consume(params.p, <<")">>)
         IN IF ~c.ok THEN c ELSE FunctionBody(name, params, block(c.p))

\* Parser.function_decl
function_decl(p) ==
    LET f == consume(p, tfunc)
        name_tok == consume_identifier(f.p)
        o == consume(name_tok.p, <<"(">>)
    IN IF ~f.ok THEN f
       ELSE IF ~name_tok.ok THEN name_tok
       ELSE IF ~o.ok THEN o
       ELSE FunctionParams(name_tok.tok.lexeme,
                           IF ~check(o.p, <<")">>) THEN param_list(o.p)
                           ELSE Parsed(o.p, <<>>, o.tok))

RECURSIVE FunctionsFrom(_, _)
\* Parser.parse_program: the loop after one function
FunctionAdded(f, funcs) ==
    IF ~f.ok THEN f ELSE FunctionsFrom(f.p, Append(funcs, f.node))

\* Parser.parse_program: the loop, entered with the functions parsed so far
FunctionsFrom(p, funcs) ==
    IF ~is_at_end(p) /\ ~check(p, tEOF)
    THEN FunctionAdded(function_decl(p), funcs)
    ELSE Parsed(p, funcs, peek(p))

\* Parser.parse_program: `node` is Program.functions
parse_program(p) == FunctionsFrom(p, <<>>)

\* parse(tokens, source)
parse(toks) == parse_program(Parser(toks))

-----------------------------------------------------------------------------
(* Lexer (lexer.py): source text is a sequence of ASCII characters         *)

\* str.isspace() for one character
isspace(c) == c \in {" ", "\t", "\n", "\r"}
\* str.isalnum() for one character
isalnum(c) == isalpha(c) \/ c \in DigitSet

\* source[pos] for the 1-based position pos, "" past the end
CharAt(source, pos) == IF pos <= Len(source) THEN source[pos] ELSE ""

\* source.startswith(pat, pos)
StartsWithAt(source, pat, pos) ==
    /\ pos + Len(pat) - 1 <= Len(source)
    /\ \A i \in 1..Len(pat) : source[pos + i - 1] = pat[i]

\* source.find(pat, pos): the first position at or after pos where pat
\* starts, 0 when there is none
Find(source, pat, pos) ==
    IF \E i \in pos..Len(source) : StartsWithAt(source, pat, i)
    THEN CHOOSE i \in pos..Len(source) :
            /\ StartsWithAt(source, pat, i)
            /\ \A j \in pos..(i - 1) : ~StartsWithAt(source, pat, j)
    ELSE 0

\* length of the run of digits starting at pos (\d* of the patterns)
RECURSIVE DigitRun(_, _)
DigitRun(source, pos) ==
    IF CharAt(source, pos) \in DigitSet THEN 1 + DigitRun(source, pos + 1) ELSE 0

\* length matched by [eE][+-]?\d+ at pos, 0 when it does not match
ExponentLen(source, pos) ==
    IF CharAt(source, pos) \in {"e", "E"}
    THEN LET sign == IF CharAt(source, pos + 1) \in {"+", "-"} THEN 1 ELSE 0
             digits == DigitRun(source, pos + 1 + sign)
         IN IF digits > 0 THEN 1 + sign + digits ELSE 0
    ELSE 0

\* length FLOAT_PATTERN.match(source, pos) matches, 0 when it does not match
FLOAT_PATTERN(source, pos) ==
    LET d == DigitRun(source, pos)
        mantissa ==
            IF d > 0 /\ CharAt(source, pos + d) = "."
            THEN d + 1 + DigitRun(source, pos + d + 1)
            ELSE IF CharAt(source, pos) = "." /\ DigitRun(source, pos + 1) > 0
            THEN 1 + DigitRun(source, pos + 1)
            ELSE 0
    IN IF mantissa > 0 THEN mantissa + ExponentLen(source, pos + mantissa)
       ELSE IF d > 0 /\ ExponentLen(source, pos + d) > 0
       THEN d + ExponentLen(source, pos + d)
       ELSE 0

\* length INT_PATTERN.match(source, pos) matches
INT_PATTERN(source, pos) == DigitRun(source, pos)

\* length of the identifier starting at pos
RECURSIVE IdentifierRun(_, _)
IdentifierRun(source, pos) ==
    IF pos <= Len(source) /\ (isalnum(source[pos]) \/ source[pos] = "_")
    THEN 1 + IdentifierRun(source, pos + 1)
    ELSE 0

\* number of line breaks in a text
RECURSIVE CountNewlines(_)
CountNewlines(s) ==
    IF s = <<>> THEN 0
    ELSE (IF Head(s) = "\n" THEN 1 ELSE 0) + CountNewlines(Tail(s))

\* len(block.split("\n")[-1]): characters after the last line break
RECURSIVE LastLineLen(_)
LastLineLen(s) ==
    IF s = <<>> \/ s[Len(s)] = "\n" THEN 0
    ELSE 1 + LastLineLen(SubSeq(s, 1, Len(s) - 1))

TwoCharOperators ==
    { <<"=", "=">>, <<"!", "=">>, <<"<", "=">>, <<">", "=">>, <<"&", "&">>,
      <<"|", "|">> }
OneCharOperators ==
    {"+", "-", "*", "/", "%", "=", "(", ")", "{", "}", ";", ",", "<", ">", "!"}

\* the list of tokens, or LexicalError with its line and column
Lexed(toks) == [ok |-> TRUE, tokens |-> toks, line |-> 0, column |-> 0]
LexicalError(line, column) ==
    [ok |-> FALSE, tokens |-> <<>>, line |-> line, column |-> column]

\* first position at or after pos holding a quote or a line break, or the
\* position past the end (the scan of a string literal)
RECURSIVE StringStop(_, _)
StringStop(source, pos) ==
    IF pos <= Len(source) /\ source[pos] \notin {"\"", "\n"}
    THEN StringStop(source, pos + 1)
    ELSE pos

\* the main loop of tokenize from position pos (1-based)
RECURSIVE TokenizeFrom(_, _, _, _, _)
TokenizeFrom(source, pos, line, column, toks) ==
    IF pos > Len(source) THEN Lexed(Append(toks, Token(tEOF, line, column)))
    ELSE
    LET char == source[pos]
        float == FLOAT_PATTERN(source, pos)
        int == INT_PATTERN(source, pos)
    IN IF isspace(char)
       THEN IF char = "\n"
            THEN TokenizeFrom(source, pos + 1, line + 1, 1, toks)
            ELSE TokenizeFrom(source, pos + 1, line, column + 1, toks)
       ELSE IF StartsWithAt(source, <<"/", "*">>, pos)
       THEN LET end == Find(source, <<"*", "/">>, pos + 2)
                comment == SubSeq(source, pos, end + 1)
            IN IF end = 0 THEN LexicalError(line, column)
               ELSE TokenizeFrom(source, end + 2, line + CountNewlines(comment),
                                 IF Contains(comment, "\n")
                                 THEN LastLineLen(comment) + 1
                                 ELSE column + Len(comment),
                                 toks)
       ELSE IF char = "#"
       THEN LET nl == Find(source, <<"\n">>, pos)
            IN TokenizeFrom(source, IF nl = 0 THEN Len(source) + 1 ELSE nl,
                            line, column, toks)
       ELSE IF char = "\""
       THEN LET stop == StringStop(source, pos + 1)
                scanned == stop - (pos + 1)
            IN IF stop <= Len(source) /\ source[stop] = "\n"
               THEN LexicalError(line, column + 1 + scanned)
               ELSE IF stop > Len(source)
               THEN LexicalError(line, column + 1 + scanned)
               ELSE TokenizeFrom(source, stop + 1, line, column + scanned + 2,
                                 Append(toks,
                                        Token(SubSeq(source, pos, stop), line, column)))
       ELSE IF float > 0
       THEN TokenizeFrom(source, pos + float, line, column + float,
                         Append(toks,
                                Token(SubSeq(source, pos, pos + float - 1), line, column)))
       ELSE IF int > 0
       THEN TokenizeFrom(source, pos + int, line, column + int,
                         Append(toks,
                                Token(SubSeq(source, pos, pos + int - 1), line, column)))
       ELSE IF isalpha(char) \/ char = "_"
       THEN LET n == 1 + IdentifierRun(source, pos + 1)
            IN TokenizeFrom(source, pos + n, line, column + n,
                            Append(toks,
                                   Token(SubSeq(source, pos, pos + n - 1), line, column)))
       ELSE IF \E two \in TwoCharOperators : StartsWithAt(source, two, pos)
       THEN TokenizeFrom(source, pos + 2, line, column + 2,
                         Append(toks, Token(SubSeq(source, pos, pos + 1), line, column)))
       ELSE IF char \in OneCharOperators
       THEN TokenizeFrom(source, pos + 1, line, column + 1,
                         Append(toks, Token(<<char>>, line, column)))
       ELSE LexicalError(line, column)

\* list(tokenize(source))
tokenize(source) == TokenizeFrom(source, 1, 1, 1, <<>>)

-----------------------------------------------------------------------------
(* Programs handed to the driver: the ASTs the parser builds for them *)

Lit(v) == LiteralExpr(v)
IntLit(n) == LiteralExpr(IntV(n))
Var(name) == VarExpr(name)
Main(statements) == FunctionDecl(tmain, <<>>, BlockStmt(statements))
Return0 == ReturnStmt(IntLit(0))

\* func main() { return a op b; }
ReturnBinaryPrograms ==
    { <<Main(<<ReturnStmt(BinaryExpr(Lit(a), op, Lit(b)))>>)>> :
        op \in BinaryOperators, a \in LiteralValues, b \in LiteralValues }

\* func main() { return op a; }
ReturnUnaryPrograms ==
    { <<Main(<<ReturnStmt(UnaryExpr(op, Lit(a)))>>)>> :
        op \in {"-", "!"}, a \in LiteralValues }

ArithmeticOperators == {"+", "-", "*", "/", "%"}
NestedLiterals == {IntV(0), IntV(2), IntV(4), FloatV(1, 2, FALSE)}

\* func main() { return a op1 b op2 c; } with the left operand nested
ReturnNestedPrograms ==
    { <<Main(<<ReturnStmt(BinaryExpr(BinaryExpr(Lit(a), op1, Lit(b)), op2, Lit(c)))>>)>> :
        op1 \in ArithmeticOperators, op2 \in ArithmeticOperators,
        a \in NestedLiterals, b \in NestedLiterals, c \in NestedLiterals }

\* func main() { print a + b; return 0; }
PrintPrograms ==
    { <<Main(<<PrintStmt(BinaryExpr(Lit(a), "+", Lit(b))), Return0>>)>> :
        a \in LiteralValues, b \in LiteralValues }

\* S6: func main() { print "a" + 1; return 0; }
S6Program == <<Main(<<PrintStmt(BinaryExpr(Lit(StrV(ta)), "+", IntLit(1))), Return0>>)>>

\* initializers of a declaration: none, a literal, a division of literals
Initializers ==
    {NoNode} \cup {Lit(v) : v \in LiteralValues}
    \cup {BinaryExpr(IntLit(n), "/", IntLit(d)) : n \in {1, 10}, d \in {0, 2}}

VariableNames == {tx, ttot}

\* func main() { T v = init; return 0; } and
\* func main() { T v = init; print v; return 0; }
DeclPrograms ==
    { <<Main(<<VarDeclStmt(T, v, init)>>
             \o (IF printed THEN <<PrintStmt(Var(v))>> ELSE <<>>)
             \o <<Return0>>)>> :
        T \in TypeTags, v \in VariableNames, init \in Initializers,
        printed \in BOOLEAN }

\* S5: func main() { int x = 10 / 0; print x; return 0; }
S5Program ==
    <<Main(<<VarDeclStmt("int", tx, BinaryExpr(IntLit(10), "/", IntLit(0))),
             PrintStmt(Var(tx)), Return0>>)>>

\* func main() { int total = 5; return 0; } with the name tot and the value 4
UnreadVariableProgram == <<Main(<<VarDeclStmt("int", ttot, IntLit(4)), Return0>>)>>

\* x = x + 1
Increment == AssignmentExpr(tx, BinaryExpr(Var(tx), "+", IntLit(1)))
\* x < n
Below(n) == BinaryExpr(Var(tx), "<", IntLit(n))
\* int x = 0;
DeclareX == VarDeclStmt("int", tx, IntLit(0))

Conditions ==
    {Lit(BoolV(TRUE)), Lit(BoolV(FALSE)), IntLit(1),
     BinaryExpr(IntLit(1), "<", IntLit(2)), BinaryExpr(IntLit(2), "<", IntLit(1))}

Branches ==
    {ReturnStmt(IntLit(1)),
     BlockStmt(<<VarDeclStmt("int", tx, BinaryExpr(IntLit(1), "/", IntLit(0)))>>),
     BlockStmt(<<PrintStmt(Lit(StrV(ta)))>>)}

\* func main() { if (c) s1 [else s2] return 0; }
IfPrograms ==
    { <<Main(<<IfStmt(c, s1, s2), Return0>>)>> :
        c \in Conditions, s1 \in Branches, s2 \in Branches \cup {NoNode} }

LoopLimits == {0, 1, 2}
LoopBodies == {<<ExprStmt(Increment)>>, <<PrintStmt(Var(tx)), ExprStmt(Increment)>>}

\* func main() { int x = 0; while (x < n) { body } return x; }
WhilePrograms ==
    { <<Main(<<DeclareX, WhileStmt(Below(n), BlockStmt(body)),
               ReturnStmt(Var(tx))>>)>> : n \in LoopLimits, body \in LoopBodies }
    \cup { <<Main(<<WhileStmt(c, BlockStmt(<<>>)), Return0>>)>> : c \in Conditions }

\* func main() { int x = 0; do { body } while (x < n); return x; }
DoWhilePrograms ==
    { <<Main(<<DeclareX, DoWhileStmt(BlockStmt(body), Below(n)),
               ReturnStmt(Var(tx))>>)>> : n \in LoopLimits, body \in LoopBodies }

\* func main() { [int x = 0;] for (init; cond; update) { print x; } return 0; }
\* with each clause of the for present or absent
ForPrograms ==
    { <<Main((IF init THEN <<>> ELSE <<DeclareX>>)
             \o <<ForStmt(IF init THEN DeclareX ELSE NoNode,
                          IF cond THEN Below(n) ELSE NoNode,
                          IF update THEN Increment ELSE NoNode,
                          BlockStmt(<<PrintStmt(Var(tx))>>)),
                  Return0>>)>> :
        init \in BOOLEAN, cond \in BOOLEAN, update \in BOOLEAN, n \in LoopLimits }

ParamLists ==
    {<<>>, <<Param("int", tn)>>, <<Param("float", tn)>>, <<Param("string", tn)>>,
     <<Param("int", tn), Param("int", ty)>>}
ArgLists ==
    {<<>>, <<IntLit(1)>>, <<Lit(FloatV(1, 2, FALSE))>>, <<Lit(StrV(ta))>>,
     <<IntLit(1), IntLit(2)>>}
Callees == {tf, tg, tmain, tx}

\* func f(params) { return 1; } func main() { int x = 0; callee(args); return 0; }
CallProgram(params, callee, args) ==
    <<FunctionDecl(tf, params, BlockStmt(<<ReturnStmt(IntLit(1))>>)),
      Main(<<DeclareX, ExprStmt(CallExpr(callee, args)), Return0>>)>>

CallPrograms ==
    { CallProgram(params, callee, args) :
        params \in ParamLists, callee \in Callees, args \in ArgLists }

\* S3: func fact(int n) { if (n <= 1) return 1; return n * fact(n - 1); }
\*     func main() { print fact(5); return 0; }    (fact is f, 5 is 4)
S3Program ==
    <<FunctionDecl(tf, <<Param("int", tn)>>,
        BlockStmt(<<IfStmt(BinaryExpr(Var(tn), "<=", IntLit(1)),
                           ReturnStmt(IntLit(1)), NoNode),
                    ReturnStmt(BinaryExpr(Var(tn), "*",
                        CallExpr(tf, <<BinaryExpr(Var(tn), "-", IntLit(1))>>)))>>)),
      Main(<<PrintStmt(CallExpr(tf, <<IntLit(4)>>)), Return0>>)>>

\* the value a call returns is used; functions in either order; a function
\* that calls itself; a function without return
CallValuePrograms ==
    { << FunctionDecl(tf, <<>>, BlockStmt(body)),
         Main(<<VarDeclStmt("int", tx, CallExpr(tf, <<>>)), ReturnStmt(Var(tx))>>) >> :
        body \in {<<ReturnStmt(IntLit(2))>>, <<ReturnStmt(NoNode)>>, <<>>,
                  <<ReturnStmt(CallExpr(tf, <<>>))>>,
                  <<PrintStmt(Lit(StrV(tb))), ReturnStmt(IntLit(4))>>} }
    \cup
    { << Main(<<PrintStmt(BinaryExpr(CallExpr(tf, <<>>), "+", CallExpr(tf, <<>>))),
                use>>),
         FunctionDecl(tf, <<>>, BlockStmt(<<ReturnStmt(IntLit(2))>>)) >> :
        use \in {Return0, ReturnStmt(NoNode), PrintStmt(Lit(StrV(ta)))} }

\* func f() { return 2; }
\* func main() { int x = 0; while (x < 2) { x = f(); } return x; }
LoopCallProgram ==
    <<FunctionDecl(tf, <<>>, BlockStmt(<<ReturnStmt(IntLit(2))>>)),
      Main(<<DeclareX,
             WhileStmt(Below(2),
                       BlockStmt(<<ExprStmt(AssignmentExpr(tx, CallExpr(tf, <<>>)))>>)),
             ReturnStmt(Var(tx))>>)>>

\* programs the analyzer or the VM must stop: no main, a function declared
\* twice, an undeclared variable, a redeclaration, returns of two types
FaultyPrograms ==
    { <<FunctionDecl(tf, <<>>, BlockStmt(<<Return0>>))>>,
      <<Main(<<Return0>>), Main(<<Return0>>)>>,
      <<Main(<<ReturnStmt(Var(tx))>>)>>,
      <<Main(<<ExprStmt(AssignmentExpr(tx, IntLit(1))), Return0>>)>>,
      <<Main(<<DeclareX, DeclareX, Return0>>)>>,
      <<Main(<<DeclareX, BlockStmt(<<DeclareX, ExprStmt(Increment)>>),
               ReturnStmt(Var(tx))>>)>>,
      <<Main(<<IfStmt(Lit(BoolV(TRUE)), Return0, ReturnStmt(Lit(StrV(ta))))>>)>>,
      <<Main(<<ReturnStmt(Var(tmain))>>)>>,
      <<Main(<<>>)>> }

\* the left operands of the logical operators: a literal, a variable
LogicalLefts == {Lit(BoolV(TRUE)), Lit(BoolV(FALSE))}

\* func main() { bool x = false; bool y = l op (x = true); print x; print y; return 0; }
AssignRightPrograms ==
    { <<Main(<<VarDeclStmt("bool", tx, Lit(BoolV(FALSE))),
               VarDeclStmt("bool", ty,
                           BinaryExpr(l, op,
                                      GroupingExpr(AssignmentExpr(tx, Lit(BoolV(TRUE)))))),
               PrintStmt(Var(tx)), PrintStmt(Var(ty)), Return0>>)>> :
        l \in LogicalLefts, op \in {"&&", "||"} }

\* func f() { print 7; return true; }
PrintingTrue == FunctionDecl(tf, <<>>, BlockStmt(<<PrintStmt(IntLit(7)),
                                                   ReturnStmt(Lit(BoolV(TRUE)))>>))
\* func g() { print 8; return false; }
PrintingFalse == FunctionDecl(tg, <<>>, BlockStmt(<<PrintStmt(IntLit(8)),
                                                    ReturnStmt(Lit(BoolV(FALSE)))>>))

\* func main() { bool y = l op f(); print y; return 0; }
CallRightPrograms ==
    { <<PrintingTrue,
        Main(<<VarDeclStmt("bool", ty, BinaryExpr(l, op, CallExpr(tf, <<>>))),
               PrintStmt(Var(ty)), Return0>>)>> :
        l \in LogicalLefts, op \in {"&&", "||"} }

\* func main() { bool y = g() op f(); print y; return 0; } and f() op g()
CallBothPrograms ==
    { <<PrintingTrue, PrintingFalse,
        Main(<<VarDeclStmt("bool", ty,
                           BinaryExpr(CallExpr(l, <<>>), op, CallExpr(r, <<>>))),
               PrintStmt(Var(ty)), Return0>>)>> :
        l \in {tf, tg}, r \in {tf, tg}, op \in {"&&", "||"} }

\* func main() { bool x; bool y = l op x; print y; return 0; }
UninitializedRightPrograms ==
    { <<Main(<<VarDeclStmt("bool", tx, NoNode),
               VarDeclStmt("bool", ty, BinaryExpr(l, op, Var(tx))),
               PrintStmt(Var(ty)), Return0>>)>> :
        l \in LogicalLefts, op \in {"&&", "||"} }

LogicalPrograms ==
    AssignRightPrograms \cup CallRightPrograms \cup CallBothPrograms
    \cup UninitializedRightPrograms

\* func main() { T x; read x; print x; return 0; } and read of an undeclared name
ReadPrograms ==
    { <<Main(<<VarDeclStmt(T, tx, NoNode), ReadStmt(Var(v)), PrintStmt(Var(tx)),
               Return0>>)>> : T \in {"int", "string"}, v \in {tx, ty} }

\* the lines input() may return
ReadInputs == {<<"2">>, <<"0">>, <<"0", ".", "5">>, <<" ", "a">>, EOF}

Programs ==
    ReturnBinaryPrograms \cup ReturnUnaryPrograms \cup ReturnNestedPrograms
    \cup PrintPrograms \cup {S6Program} \cup DeclPrograms
    \cup {S5Program, UnreadVariableProgram}
    \cup IfPrograms \cup WhilePrograms \cup DoWhilePrograms \cup ForPrograms
    \cup CallPrograms \cup {S3Program, LoopCallProgram} \cup CallValuePrograms
    \cup FaultyPrograms \cup ReadPrograms \cup LogicalPrograms

-----------------------------------------------------------------------------
(* Driver (main.py) *)

\* which except clause of main() catches an exception
ExceptClause(exc) ==
    CASE exc = "LexicalError" -> "lexical-error"
      [] exc = "ParseError" -> "parse-error"
      [] exc = "SemanticError" -> "semantic-error"
      [] exc = "VMError" -> "vm-error"
      [] OTHER -> "unexpected"

NoVM == VirtualMachine(<<>>, <<>>)

Pending == [done |-> FALSE]
Idle == [fn |-> "none"]

Init ==
    /\ unit = Idle
    /\ out = Pending
    /\ source_code = <<>>
    /\ tokens = <<>>
    /\ program \in Programs
    /\ phase = "semantic"
    /\ error_kind = "none"
    /\ exit_code = -1
    /\ sem = NewAnalyzer
    /\ ir = <<>>
    /\ optimized_ir = <<>>
    /\ vm = NoVM
    /\ refvm = NoVM

\* main() after tokenize returned r or raised LexicalError
SourceTokenized(r) ==
    IF r.ok
    THEN /\ tokens' = r.tokens
         /\ phase' = "parse"
         /\ UNCHANGED <<error_kind, exit_code>>
    ELSE /\ phase' = "end"
         /\ error_kind' = ExceptClause("LexicalError")
         /\ exit_code' = 1
         /\ UNCHANGED tokens

\* tokens = list(tokenize(source_code))
Tokenize ==
    /\ phase = "lex"
    /\ SourceTokenized(tokenize(source_code))
    /\ UNCHANGED <<unit, out, source_code, program, sem, ir, optimized_ir, vm, refvm>>

\* main() after parse returned r or raised ParseError
ProgramParsed(r) ==
    IF r.ok
    THEN /\ program' = r.node
         /\ phase' = "semantic"
         /\ UNCHANGED <<error_kind, exit_code>>
    ELSE /\ phase' = "end"
         /\ error_kind' = ExceptClause("ParseError")
         /\ exit_code' = 1
         /\ UNCHANGED program

\* program = parse(tokens, source_code)
Parse ==
    /\ phase = "parse"
    /\ ProgramParsed(parse(tokens))
    /\ UNCHANGED <<unit, out, source_code, tokens, sem, ir, optimized_ir, vm, refvm>>

\* a driver that goes on to IR generation whatever analyze() reported
AnalyzeIgnoringErrors ==
    /\ phase = "semantic"
    /\ sem' = analyze(program)
    /\ phase' = "irgen"
    /\ UNCHANGED <<error_kind, exit_code>>
    /\ UNCHANGED <<unit, out, source_code, tokens, program, ir, optimized_ir, vm, refvm>>

\* analyzer.analyze(program)
Analyze ==
    /\ phase = "semantic"
    /\ sem' = analyze(program)
    /\ IF sem'.err = "none"
       THEN phase' = "irgen" /\ UNCHANGED <<error_kind, exit_code>>
       ELSE phase' = "end" /\ error_kind' = ExceptClause(sem'.err) /\ exit_code' = 1
    /\ UNCHANGED <<unit, out, source_code, tokens, program, ir, optimized_ir, vm, refvm>>

\* ir = generate_ir(program)
GenerateIR ==
    /\ phase = "irgen"
    /\ ir' = generate_ir(program)
    /\ phase' = "optimize"
    /\ UNCHANGED <<unit, out, source_code, tokens, program, error_kind, exit_code, sem, optimized_ir,
                   vm, refvm>>

\* main() after optimize returned o or raised
ProgramOptimized(o) ==
    IF o.ok
    THEN /\ optimized_ir' = o.instrs
         /\ phase' = "vm"
         /\ UNCHANGED <<error_kind, exit_code>>
    ELSE /\ phase' = "reference"
         /\ error_kind' = ExceptClause(o.err)
         /\ exit_code' = 1
         /\ UNCHANGED optimized_ir

\* optimized_ir = optimize(ir)
Optimize ==
    /\ phase = "optimize"
    /\ ProgramOptimized(optimize(ir))
    /\ UNCHANGED <<unit, out, source_code, tokens, program, sem, ir, vm, refvm>>

\* run_ir_program(optimized_ir, func_param_names) up to the loop of run()
RunIRProgram ==
    /\ phase = "vm"
    /\ vm.status = "new"
    /\ vm' = RunStart(VirtualMachine(optimized_ir, FuncParamNames(program)))
    /\ UNCHANGED <<unit, out, source_code, tokens, program, phase, error_kind, exit_code, sem, ir,
                   optimized_ir, refvm>>

\* one iteration of the loop of run()
RunStep ==
    /\ phase = "vm"
    /\ vm.status = "running"
    /\ vm.steps < MaxSteps
    /\ \E raw \in ReadInputs : vm' = Step(vm, raw)
    /\ UNCHANGED <<unit, out, source_code, tokens, program, phase, error_kind, exit_code, sem, ir,
                   optimized_ir, refvm>>

\* run() returned or raised: main() returns 0 or its except clause returns 1
Exit ==
    /\ phase = "vm"
    /\ vm.status \in {"halted", "error"}
    /\ IF vm.status = "halted"
       THEN error_kind' = "none" /\ exit_code' = 0
       ELSE error_kind' = ExceptClause(vm.err) /\ exit_code' = 1
    /\ phase' = "reference"
    /\ UNCHANGED <<unit, out, source_code, tokens, program, sem, ir, optimized_ir, vm, refvm>>

\* the same VM started on the IR as generate_ir returned it
ReferenceRun ==
    /\ phase = "reference"
    /\ refvm.status = "new"
    /\ refvm' = RunStart(VirtualMachine(ir, FuncParamNames(program)))
    /\ UNCHANGED <<unit, out, source_code, tokens, program, phase, error_kind, exit_code, sem, ir,
                   optimized_ir, vm>>

ReferenceStep ==
    /\ phase = "reference"
    /\ refvm.status = "running"
    /\ refvm.steps < MaxSteps
    /\ \E raw \in ReadInputs : refvm' = Step(refvm, raw)
    /\ UNCHANGED <<unit, out, source_code, tokens, program, phase, error_kind, exit_code, sem, ir,
                   optimized_ir, vm>>

ReferenceExit ==
    /\ phase = "reference"
    /\ refvm.status \in {"halted", "error"}
    /\ phase' = "end"
    /\ UNCHANGED <<unit, out, source_code, tokens, program, error_kind, exit_code, sem, ir,
                   optimized_ir, vm, refvm>>

Next ==
    \/ Analyze
    \/ GenerateIR
    \/ Optimize
    \/ RunIRProgram
    \/ RunStep
    \/ Exit
    \/ ReferenceRun
    \/ ReferenceStep
    \/ ReferenceExit

Spec == Init /\ [][Next]_vars

-----------------------------------------------------------------------------
(* Unit harness: one function applied to inputs drawn from bounded sets *)

\* sequences over S of length at most n
SeqsUpTo(S, n) == UNION {[1..m -> S] : m \in 0..n}

\* instructions the lists handed to remove_dead_temps are drawn from
DeadUniverse ==
    { Assign(tt0, <<"1">>), Assign(tt1, tt0), Assign(tx, tt0), Assign(ttot, tt1),
      Assign(tt0, tx), BinaryOp(tx, "+", tt0, tt1), UnaryOp(tt1, "-", tt0),
      PrintInstr(tt1), IfGoto(tt0, tL1), ReturnInstr(TRUE, tt0),
      ReturnInstr(FALSE, <<>>), ParamInstr(tt0), CallInstr(TRUE, tt1, tf, 1),
      ReadInstr(tt0), Label(tL1) }

\* instructions the lists handed to remove_trivial_gotos are drawn from
GotoUniverse ==
    { Goto(tL1), Goto(tL2), Label(tL1), Label(tL2), PrintInstr(tx) }

UnitCases ==
    [fn : {"fold_binary"}, op : BinaryOperators,
     left : LiteralOperands, right : LiteralOperands]
    \cup [fn : {"ensure_type_compatible"}, expected : TypeTags, found : TypeTags]
    \cup [fn : {"remove_dead_temps"}, instrs : SeqsUpTo(DeadUniverse, MaxDeadLen)]
    \cup [fn : {"remove_trivial_gotos"}, instrs : SeqsUpTo(GotoUniverse, MaxGotoLen)]



\* the variables of the driver, unused by the unit harness
DriverIdle ==
    /\ source_code = <<>>
    /\ tokens = <<>>
    /\ program = <<>>
    /\ phase = "idle"
    /\ error_kind = "none"
    /\ exit_code = -1
    /\ sem = Pending
    /\ ir = <<>>
    /\ optimized_ir = <<>>
    /\ vm = Pending
    /\ refvm = Pending

DriverVars == <<source_code, tokens, program, phase, error_kind, exit_code, sem, ir, optimized_ir, vm, refvm>>

InitUnit ==
    /\ unit \in UnitCases
    /\ out = Pending
    /\ DriverIdle

\* _fold_binary(op, left, right) beside the VM's BinaryOp on the same operands
FoldBinaryCase ==
    /\ unit.fn = "fold_binary"
    /\ ~out.done
    /\ LET a == _get(<<>>, unit.left)
           b == _get(<<>>, unit.right)
       IN out' = [done |-> TRUE,
                  folded |-> _fold_binary(unit.op, unit.left, unit.right),
                  vm |-> IF a.ok /\ b.ok THEN VMBinary(unit.op, a.v, b.v)
                         ELSE Err("VMError")]
    /\ UNCHANGED <<unit, DriverVars>>

\* _ensure_type_compatible(expected, found, msg)
EnsureTypeCompatibleCase ==
    /\ unit.fn = "ensure_type_compatible"
    /\ ~out.done
    /\ out' = [done |-> TRUE,
               accepted |-> _ensure_type_compatible(unit.expected, unit.found)]
    /\ UNCHANGED <<unit, DriverVars>>

\* remove_dead_temps(instrs)
RemoveDeadTempsCase ==
    /\ unit.fn = "remove_dead_temps"
    /\ ~out.done
    /\ out' = [done |-> TRUE, instrs |-> remove_dead_temps(unit.instrs)]
    /\ UNCHANGED <<unit, DriverVars>>

\* remove_trivial_gotos(instrs), and the pass applied to its own output
RemoveTrivialGotosCase ==
    /\ unit.fn = "remove_trivial_gotos"
    /\ ~out.done
    /\ LET once == remove_trivial_gotos(unit.instrs)
       IN out' = [done |-> TRUE, once |-> once, twice |-> remove_trivial_gotos(once)]
    /\ UNCHANGED <<unit, DriverVars>>

NextUnit ==
    \/ FoldBinaryCase
    \/ EnsureTypeCompatibleCase
    \/ RemoveDeadTempsCase
    \/ RemoveTrivialGotosCase

SpecUnit == InitUnit /\ [][NextUnit]_vars

-----------------------------------------------------------------------------
(* Properties of the optimizer and the type utilities (unit harness) *)

\* Python's v == w on runtime values: numbers by value, strings by content
PyEq(v, w) ==
    \/ IsNum(v) /\ IsNum(w) /\ NumP(v) * NumQ(w) = NumP(w) * NumQ(v)
    \/ v.k = "str" /\ w.k = "str" /\ v.s = w.s

\* C2 - Folding agrees with the VM: for every binary operator and every pair
\* of literal operands on which the VM's BinaryOp is defined, _fold_binary
\* returns an operand text that _get decodes to the value the VM's BinaryOp
\* stores for those operands (here: a value equal to it, even letting the
\* int 2 and the float 2.0 count as one value).
FoldAgreesWithVM ==
    (unit.fn = "fold_binary" /\ out.done /\ out.vm.ok)
        => /\ out.folded.ok
           /\ _get(<<>>, out.folded.v.s).ok
           /\ PyEq(_get(<<>>, out.folded.v.s).v, out.vm.v)

\* the elements of instrs at the indices in K, in order, from index i on
RECURSIVE PickFrom(_, _, _)
PickFrom(instrs, K, i) ==
    IF i > Len(instrs) THEN <<>>
    ELSE (IF i \in K THEN <<instrs[i]>> ELSE <<>>) \o PickFrom(instrs, K, i + 1)

\* the names an instruction reads as operands
OperandsRead(instr) ==
    CASE instr.kind = "Assign" -> {instr.src}
      [] instr.kind = "BinaryOp" -> {instr.left, instr.right}
      [] instr.kind = "UnaryOp" -> {instr.operand}
      [] instr.kind = "PrintInstr" -> {instr.value}
      [] instr.kind = "IfGoto" -> {instr.condition}
      [] instr.kind = "ReturnInstr" -> IF instr.has_value THEN {instr.value} ELSE {}
      [] instr.kind = "ParamInstr" -> {instr.value}
      [] OTHER -> {}

\* C7 - Dead-temp safety: the output of remove_dead_temps is the input with some instructions
\* left out; every instruction left out is an Assign whose destination begins
\* with `t`, and no instruction of the output reads that destination.
DeadTempSafety ==
    (unit.fn = "remove_dead_temps" /\ out.done)
        => \E K \in SUBSET (1..Len(unit.instrs)) :
              /\ out.instrs = PickFrom(unit.instrs, K, 1)
              /\ \A i \in (1..Len(unit.instrs)) \ K :
                    /\ unit.instrs[i].kind = "Assign"
                    /\ startswith(unit.instrs[i].dest, "t")
                    /\ \A j \in 1..Len(out.instrs) :
                          unit.instrs[i].dest \notin OperandsRead(out.instrs[j])

\* C7 witness: a list from which an unread `t`-Assign was removed while an
\* Assign to a name not beginning with `t` and a read temporary were kept
DeadTempRemoved ==
    /\ unit.fn = "remove_dead_temps"
    /\ out.done
    /\ unit.instrs = <<Assign(tt0, <<"1">>), Assign(tx, tt0), Assign(ttot, tt1)>>
    /\ out.instrs = <<Assign(tt0, <<"1">>), Assign(tx, tt0)>>

\* Goto(L), Goto(L), Label(L) in a row somewhere in instrs
HasDoubledGoto(instrs) ==
    \E i \in 1..(Len(instrs) - 2) :
        /\ instrs[i].kind = "Goto"
        /\ instrs[i + 1] = instrs[i]
        /\ instrs[i + 2] = Label(instrs[i].target)

\* some Goto(L) immediately followed by Label(L)
HasTrivialGoto(instrs) ==
    \E i \in 1..(Len(instrs) - 1) :
        instrs[i].kind = "Goto" /\ instrs[i + 1] = Label(instrs[i].target)

\* C8 - Trivial-goto idempotence: for every instruction list s,
\* remove_trivial_gotos applied to its own output changes nothing, and that
\* output holds no Goto(L) immediately followed by Label(L).
TrivialGotoIdempotent ==
    (unit.fn = "remove_trivial_gotos" /\ out.done)
        => /\ out.twice = out.once
           /\ ~HasTrivialGoto(out.once)

\* the extent of the failure: lists that nowhere hold Goto(L), Goto(L),
\* Label(L) in a row are left without a trivial goto by one run
TrivialGotoIdempotentUndoubled ==
    (unit.fn = "remove_trivial_gotos" /\ out.done /\ ~HasDoubledGoto(unit.instrs))
        => /\ out.twice = out.once
           /\ ~HasTrivialGoto(out.once)

\* C10 - Compatibility lattice: on the four type tags, _ensure_type_compatible(expected = T, found = U)
\* accepts exactly when T = U or (T = float and U = int): it is reflexive,
\* float <- int is the only accepted pair of different tags, and string with
\* any other tag is rejected.
CompatibilityLattice ==
    (unit.fn = "ensure_type_compatible" /\ out.done)
        => /\ out.accepted <=> (unit.expected = unit.found
                                \/ (unit.expected = "float" /\ unit.found = "int"))
           /\ unit.expected = unit.found => out.accepted
           /\ ("string" \in {unit.expected, unit.found} /\ unit.expected # unit.found)
                  => ~out.accepted

\* C10 witness: the widening pair was checked and accepted
WideningAccepted ==
    /\ unit.fn = "ensure_type_compatible"
    /\ out.done
    /\ unit.expected = "float"
    /\ unit.found = "int"
    /\ out.accepted


-----------------------------------------------------------------------------
(* Properties of the driver's pipeline *)

\* the IR was generated: the analyzer accepted the program
Generated == phase \notin {"semantic", "irgen"} /\ sem.err = "none"

\* the program holds no read and no print: its IR holds neither instruction
NoReadNoPrint ==
    \A i \in 1..Len(ir) : ir[i].kind \notin {"ReadInstr", "PrintInstr"}

\* C1 - Optimizer preservation: for every accepted program without read and
\* print, the VM on the generated IR and the VM on the optimized IR both halt
\* with the same return value of main (same value, same kind), or both fail
\* (an exception leaving optimize() leaves no optimized run: it fails).
OptimizerPreservation ==
    (phase = "end" /\ Generated /\ NoReadNoPrint) =>
        \/ /\ vm.status = "halted"
           /\ refvm.status = "halted"
           /\ vm.return_value.k = refvm.return_value.k
           /\ vm.return_value = refvm.return_value
        \/ /\ vm.status # "halted"
           /\ refvm.status # "halted"

\* the type of a literal argument and the parameters a function declares
ArgTypes(args) == [i \in 1..Len(args) |-> _infer_literal_type(args[i].value)]
DeclaredParams(params, callee) ==
    IF callee = tf THEN params ELSE <<>>

\* what the rule for calls asks of callee(args) in CallProgram(params, ..)
CallIsWellFormed(params, callee, args) ==
    /\ callee \in {tf, tmain}
    /\ Len(args) = Len(DeclaredParams(params, callee))
    /\ \A i \in 1..Len(args) :
          _ensure_type_compatible(DeclaredParams(params, callee)[i].param_type,
                                  ArgTypes(args)[i])

\* C3 - Semantic analysis accepts a call exactly when the callee is a
\* function of the global scope, the argument count equals its declared
\* parameter count and every argument is compatible with its parameter;
\* fact(n - 1) with `func fact(int n)` is accepted.
CallAcceptance ==
    phase # "semantic" =>
        /\ \A params \in ParamLists, callee \in Callees, args \in ArgLists :
              program = CallProgram(params, callee, args) =>
                  (sem.err = "none" <=> CallIsWellFormed(params, callee, args))
        /\ program = S3Program => sem.err = "none"

\* C4 - `print "a" + 1;` goes through the whole pipeline without error: the
\* analyzer accepts it, the VM prints a1, main returns 0 and so does the driver.
StringPlusIntPipeline ==
    (program = S6Program /\ phase \in {"reference", "end"}) =>
        /\ sem.err = "none"
        /\ error_kind = "none"
        /\ exit_code = 0
        /\ vm.status = "halted"
        /\ vm.stdout = << <<"a", "1">> >>
        /\ vm.return_value = IntV(0)

\* C5 - `int x = 10 / 0;` stops with a classified error: the driver reports
\* an optimizer-error or a vm-error, never an unexpected error.
DivisionByZeroClassified ==
    (program = S5Program /\ phase \in {"reference", "end"}) =>
        /\ exit_code = 1
        /\ error_kind \in {"optimizer-error", "vm-error"}

\* the names a statement declares as variables
RECURSIVE DeclaredIn(_)
DeclaredIn(stmt) ==
    CASE stmt.node = "VarDeclStmt" -> {stmt.name}
      [] stmt.node = "BlockStmt" ->
           UNION {DeclaredIn(stmt.statements[i]) : i \in 1..Len(stmt.statements)}
      [] stmt.node = "IfStmt" ->
           DeclaredIn(stmt.then_branch) \cup DeclaredIn(stmt.else_branch)
      [] stmt.node \in {"WhileStmt", "DoWhileStmt"} -> DeclaredIn(stmt.body)
      [] stmt.node = "ForStmt" -> DeclaredIn(stmt.init) \cup DeclaredIn(stmt.body)
      [] OTHER -> {}

\* the program variables: declared locals and parameters
ProgramVariables ==
    UNION {DeclaredIn(program[f].body)
           \cup {program[f].params[j].name : j \in 1..Len(program[f].params)} :
           f \in 1..Len(program)}

AssignsTo(instrs, name) ==
    Cardinality({i \in 1..Len(instrs) :
                    instrs[i].kind = "Assign" /\ instrs[i].dest = name})

\* C6 - On every stream the IR generator produces, remove_dead_temps drops no
\* Assign whose destination is a program variable, read or not.
ProgramVariablesKept ==
    Generated =>
        \A v \in ProgramVariables :
            AssignsTo(remove_dead_temps(ir), v) = AssignsTo(ir, v)

HasInstr(instrs, kind, name) ==
    \E j \in 1..Len(instrs) : instrs[j].kind = kind /\ instrs[j].name = name

\* C9 - IR label integrity: in the stream generate_ir returns for an accepted
\* program every Goto and IfGoto target is the name of a Label of the stream
\* and every Call callee is the name of a FuncLabel of the stream.
IRLabelIntegrity ==
    Generated =>
        \A i \in 1..Len(ir) :
            /\ ir[i].kind \in {"Goto", "IfGoto"} => HasInstr(ir, "Label", ir[i].target)
            /\ ir[i].kind = "CallInstr" => HasInstr(ir, "FuncLabel", ir[i].callee)

\* C9 witness: a generated stream with a jump, a conditional jump and a call
JumpsAndCallGenerated ==
    /\ Generated
    /\ \E i, j, k \in 1..Len(ir) :
          ir[i].kind = "Goto" /\ ir[j].kind = "IfGoto" /\ ir[k].kind = "CallInstr"

\* every float the machines hold is one the model computes exactly
FloatsExact ==
    \A m \in {vm, refvm} :
        /\ ExactFloat(m.return_value)
        /\ \A name \in DOMAIN m.env : ExactFloat(m.env[name])

-----------------------------------------------------------------------------
(* The analyzer statement by statement: analyze() unrolled along the       *)
(* statements of the function bodies, entering blocks and for-loops, so    *)
(* that the symbol table is visible between two statements                 *)

\* the statements the analyzed bodies are built from
SemStatements ==
    { VarDeclStmt("int", tx, NoNode),
      VarDeclStmt("string", tx, Lit(StrV(ta))),
      ExprStmt(AssignmentExpr(tx, IntLit(1))),
      ExprStmt(AssignmentExpr(tx, Lit(StrV(ta)))),
      BlockStmt(<<VarDeclStmt("string", tx, Lit(StrV(ta))),
                  ExprStmt(AssignmentExpr(tx, Lit(StrV(tb))))>>),
      BlockStmt(<<VarDeclStmt("int", tx, NoNode), VarDeclStmt("int", tx, NoNode)>>),
      ForStmt(VarDeclStmt("string", tx, Lit(StrV(ta))), NoNode, NoNode,
              BlockStmt(<<ExprStmt(AssignmentExpr(tx, Lit(StrV(tb))))>>)),
      ForStmt(NoNode, Lit(BoolV(FALSE)), NoNode, ReturnStmt(Lit(StrV(ta)))),
      IfStmt(Lit(BoolV(TRUE)), ReturnStmt(IntLit(1)), NoNode),
      ReturnStmt(IntLit(1)),
      ReturnStmt(Lit(StrV(ta))),
      ReturnStmt(NoNode),
      ReturnStmt(Var(tx)),
      ReturnStmt(Var(tmain)),
      ReturnStmt(CallExpr(tg, <<>>)),
      PrintStmt(Var(ty)),
      PrintStmt(Var(tg)),
      ExprStmt(AssignmentExpr(tmain, Var(tmain))),
      ReadStmt(Var(tg)) }

\* most statements of an analyzed body after its leading declaration
MaxBodyLen == 2

\* the declaration a body of main may begin with
SemPrefixes ==
    { <<>>, <<VarDeclStmt("int", tx, NoNode)>>,
      <<VarDeclStmt("string", tx, Lit(StrV(ta)))>> }

\* func g() { return "a"; }
GFunction == FunctionDecl(tg, <<>>, BlockStmt(<<ReturnStmt(Lit(StrV(ta)))>>))

\* func g() { return "a"; } func main() { prefix body }, and
\* func g(int x) { body } func main() { return 0; }
SemPrograms ==
    { <<GFunction, Main(prefix \o body)>> :
        prefix \in SemPrefixes, body \in SeqsUpTo(SemStatements, MaxBodyLen) }
    \cup { <<FunctionDecl(tg, <<Param("int", tx)>>, BlockStmt(body)), Main(<<Return0>>)>> :
             body \in SeqsUpTo(SemStatements, MaxBodyLen) }
    \cup { <<GFunction, GFunction>> }

InitSem ==
    /\ unit \in [fn : {"analyze"}, functions : SemPrograms]
    /\ out = [an |-> NewAnalyzer, stage |-> "register", fi |-> 0, stack |-> <<>>]
    /\ DriverIdle

\* the statement the analyzer is about to analyze (NoNode when the innermost
\* list is exhausted or no function is open)
NextStmt ==
    IF out.stack = <<>> THEN NoNode
    ELSE LET top == out.stack[Len(out.stack)]
         IN IF top.i > Len(top.statements) THEN NoNode ELSE top.statements[top.i]

Raised == out.an.err # "none"

\* analyze(): the registration loop
RegisterFunctions ==
    /\ out.stage = "register"
    /\ out' = [out EXCEPT !.an = RegisterFrom(@, unit.functions, 1),
                          !.stage = "functions"]
    /\ UNCHANGED <<unit, DriverVars>>

\* _analyze_function up to the call of _analyze_stmt(func.body)
EnterFunction ==
    /\ out.stage = "functions" /\ ~Raised
    /\ out.stack = <<>>
    /\ out.fi < Len(unit.functions)
    /\ LET func == unit.functions[out.fi + 1]
           an0 == [out.an EXCEPT !.symtab = push_scope(@),
                                 !.current_function = func.name,
                                 !.current_return_type = NoType]
       IN out' = [out EXCEPT
                      !.an = DeclareParamsFrom(an0, func.params, 1),
                      !.fi = @ + 1,
                      !.stack = <<[kind |-> "func", statements |-> <<func.body>>,
                                   i |-> 1]>>]
    /\ UNCHANGED <<unit, DriverVars>>

\* _analyze_stmt on a BlockStmt up to its first statement
EnterBlock ==
    /\ ~Raised
    /\ NextStmt.node = "BlockStmt"
    /\ out' = [out EXCEPT
                   !.an.symtab = push_scope(@),
                   !.stack = Append(@, [kind |-> "block",
                                        statements |-> NextStmt.statements,
                                        i |-> 1])]
    /\ UNCHANGED <<unit, DriverVars>>

\* _analyze_for up to the call of _analyze_stmt(stmt.body)
EnterFor ==
    /\ ~Raised
    /\ NextStmt.node = "ForStmt"
    /\ LET stmt == NextStmt
           an0 == [out.an EXCEPT !.symtab = push_scope(@)]
           an1 == IF stmt.init.node = "None" THEN an0 ELSE _analyze_stmt(an0, stmt.init)
           an2 == IF stmt.condition.node = "None" THEN an1
                  ELSE AnalyzeCondition(an1, stmt.condition)
           an3 == IF stmt.update.node = "None" THEN an2
                  ELSE _analyze_expr(an2, stmt.update).an
       IN out' = [out EXCEPT
                      !.an = an3,
                      !.stack = Append(@, [kind |-> "for",
                                           statements |-> <<stmt.body>>,
                                           i |-> 1])]
    /\ UNCHANGED <<unit, DriverVars>>

\* _analyze_stmt on any other statement
AnalyzeStatement ==
    /\ ~Raised
    /\ NextStmt.node \notin {"None", "BlockStmt", "ForStmt"}
    /\ out' = [out EXCEPT
                   !.an = _analyze_stmt(@, NextStmt),
                   !.stack[Len(out.stack)].i = @ + 1]
    /\ UNCHANGED <<unit, DriverVars>>

\* the pop_scope() that ends a block or a for-loop
LeaveScope ==
    /\ ~Raised
    /\ Len(out.stack) > 1
    /\ NextStmt.node = "None"
    /\ out' = [out EXCEPT
                   !.an = PopScope(@),
                   !.stack = [SubSeq(@, 1, Len(@) - 1) EXCEPT ![Len(@) - 1].i = @ + 1]]
    /\ UNCHANGED <<unit, DriverVars>>

\* the end of _analyze_function: pop_scope() and the cleared references
LeaveFunction ==
    /\ ~Raised
    /\ Len(out.stack) = 1
    /\ NextStmt.node = "None"
    /\ LET an2 == PopScope(out.an)
       IN out' = [out EXCEPT
                      !.an = IF an2.err # "none" THEN an2
                             ELSE [an2 EXCEPT !.current_function = <<>>,
                                              !.current_return_type = NoType],
                      !.stack = <<>>,
                      !.stage = IF out.fi = Len(unit.functions) THEN "done" ELSE @]
    /\ UNCHANGED <<unit, DriverVars>>

NextSem ==
    \/ RegisterFunctions
    \/ EnterFunction
    \/ EnterBlock
    \/ EnterFor
    \/ AnalyzeStatement
    \/ LeaveScope
    \/ LeaveFunction

SpecSem == InitSem /\ [][NextSem]_vars

\* the unrolled analysis ends in the state analyze() ends in
UnrolledAnalysisAgrees ==
    (out.stage = "done" \/ Raised) => out.an = analyze(unit.functions)


-----------------------------------------------------------------------------
(* Properties of the analyzer (statement by statement) *)

\* a return statement occurs in stmt
RECURSIVE ContainsReturn(_)
ContainsReturn(stmt) ==
    CASE stmt.node = "ReturnStmt" -> TRUE
      [] stmt.node = "BlockStmt" ->
            \E j \in 1..Len(stmt.statements) : ContainsReturn(stmt.statements[j])
      [] stmt.node = "IfStmt" ->
            ContainsReturn(stmt.then_branch) \/ ContainsReturn(stmt.else_branch)
      [] stmt.node \in {"WhileStmt", "DoWhileStmt", "ForStmt"} -> ContainsReturn(stmt.body)
      [] OTHER -> FALSE

\* a return of the function under analysis has already been analyzed
ReturnSeen ==
    \E k \in 1..Len(out.stack) :
        \E j \in 1..(out.stack[k].i - 1) : ContainsReturn(out.stack[k].statements[j])

\* the return type stored on the symbol of function name
StoredReturnType(o, name) == resolve_global(o.an.symtab, name).type

FunctionNames == {unit.functions[i].name : i \in 1..Len(unit.functions)}

\* C11 - return-type inference: the first return analyzed in a function
\* stores its type (void for a bare return) on the function symbol, a later
\* return of another type raises SemanticError, and a stored return type is
\* never replaced by another one
ReturnTypeInference ==
    [][ /\ (NextStmt.node = "ReturnStmt" /\ ~Raised /\ out.stack # <<>>) =>
             LET f == out.an.current_function
                 t == IF NextStmt.value.node = "None" THEN "void"
                      ELSE _analyze_expr(out.an, NextStmt.value)
                 ty0 == IF NextStmt.value.node = "None" THEN "void" ELSE t.type
                 failed == NextStmt.value.node # "None" /\ t.an.err # "none"
             IN /\ (~ReturnSeen /\ ~failed) =>
                      /\ out'.an.err = "none"
                      /\ StoredReturnType(out', f) = ty0
                      /\ ty0 \in TypeTags \cup {"void"}
                /\ (ReturnSeen /\ ~failed /\ ty0 # StoredReturnType(out, f)) =>
                      out'.an.err = "SemanticError"
        /\ \A name \in FunctionNames :
             /\ name \in DOMAIN out.an.symtab.global_scope
             /\ StoredReturnType(out, name) # NoType
             => StoredReturnType(out', name) = StoredReturnType(out, name)
      ]_vars


\* the for statement whose body frame k of the stack holds
ForOfFrame(k) == out.stack[k - 1].statements[out.stack[k - 1].i]

\* the declarations the program text places in the scope of frame k so far:
\* the parameters of the function, the declarations among the statements of
\* a block that have been analyzed, the init declaration of a for-loop
DeclsOfFrame(k) ==
    LET fr == out.stack[k]
    IN CASE fr.kind = "func" ->
              LET ps == unit.functions[out.fi].params
              IN {<<ps[j].name, ps[j].param_type>> : j \in 1..Len(ps)}
         [] fr.kind = "block" ->
              {<<fr.statements[j].name, fr.statements[j].var_type>> :
                  j \in {h \in 1..(fr.i - 1) : fr.statements[h].node = "VarDeclStmt"}}
         [] fr.kind = "for" ->
              IF ForOfFrame(k).init.node = "VarDeclStmt"
              THEN {<<ForOfFrame(k).init.name, ForOfFrame(k).init.var_type>>}
              ELSE {}

DeclaredInFrame(k, name) == \E d \in DeclsOfFrame(k) : d[1] = name

\* the type the innermost enclosing declaration of name gives it
\* ("undeclared" when no enclosing scope declares it)
LexicalType(name) ==
    LET ks == {k \in 1..Len(out.stack) : DeclaredInFrame(k, name)}
    IN IF ks = {} THEN "undeclared"
       ELSE LET k == CHOOSE h \in ks : \A g \in ks : g <= h
            IN (CHOOSE d \in DeclsOfFrame(k) : d[1] = name)[2]

SemNames == {tx, ty}

\* C12 - scoped declarations: a declaration of a name already declared in
\* the current scope raises SemanticError and leaves the symbol table as it
\* was; a declaration in a nested block or for-loop is accepted; and resolve
\* always returns the innermost enclosing declaration, hence the outer one
\* again once the nested scope is left
ScopedDeclarations ==
    /\ [](~Raised =>
            /\ Len(out.an.symtab.scopes) = Len(out.stack)
            /\ \A name \in SemNames :
                 LET symbol == resolve(out.an.symtab, name)
                 IN IF LexicalType(name) = "undeclared" THEN symbol.kind # "var"
                    ELSE symbol.kind = "var" /\ symbol.type = LexicalType(name))
    /\ [][ /\ (~Raised /\ NextStmt.node = "VarDeclStmt") =>
                IF DeclaredInFrame(Len(out.stack), NextStmt.name)
                THEN /\ out'.an.err = "SemanticError"
                     /\ out'.an.symtab = out.an.symtab
                ELSE out'.an.err = "none"
           /\ (~Raised /\ NextStmt.node = "ForStmt") => out'.an.err = "none"
         ]_vars

\* a block or for-loop that redeclared x as a string has been left and x
\* resolves to the int declared outside it
ShadowingScopeLeft ==
    /\ ~Raised
    /\ resolve(out.an.symtab, tx).type = "int"
    /\ \E k \in 1..Len(out.stack) :
         /\ \E h \in 1..k : DeclaredInFrame(h, tx)
         /\ \E j \in 1..(out.stack[k].i - 1) :
              LET s == out.stack[k].statements[j]
              IN \/ s.node = "ForStmt" /\ s.init.node = "VarDeclStmt"
                                        /\ s.init.var_type = "string"
                 \/ s.node = "BlockStmt" /\ Len(s.statements) > 0
                                          /\ s.statements[1].node = "VarDeclStmt"
                                          /\ s.statements[1].var_type = "string"


\* the names an expression reads as variables or assigns to
RECURSIVE VariablesOf(_)
VariablesOf(expr) ==
    CASE expr.node = "VarExpr" -> {expr.name}
      [] expr.node = "UnaryExpr" -> VariablesOf(expr.operand)
      [] expr.node = "BinaryExpr" -> VariablesOf(expr.left) \cup VariablesOf(expr.right)
      [] expr.node = "GroupingExpr" -> VariablesOf(expr.expr)
      [] expr.node = "AssignmentExpr" -> {expr.name} \cup VariablesOf(expr.value)
      [] expr.node = "CallExpr" ->
            UNION {VariablesOf(expr.args[j]) : j \in 1..Len(expr.args)}
      [] OTHER -> {}

\* the expression of an expression, print or return statement
ExprOfStmt(stmt) ==
    CASE stmt.node = "ExprStmt" -> stmt.expr
      [] stmt.node = "PrintStmt" -> stmt.expr
      [] stmt.node = "ReturnStmt" -> stmt.value
      [] OTHER -> NoNode

\* C13 - undeclared variables are rejected: analyzing a statement whose
\* expression reads or assigns a name that no enclosing scope declares as a
\* parameter or local raises SemanticError, also when the name is bound as a
\* function in the global scope
UndeclaredRejected ==
    [][ (~Raised /\ \E name \in VariablesOf(ExprOfStmt(NextStmt)) :
                        LexicalType(name) = "undeclared")
        => out'.an.err = "SemanticError" ]_vars


-----------------------------------------------------------------------------
(* Parser harness: parse() applied to func main() { e ; } for token        *)
(* sequences e drawn from bounded families                                 *)

tc == <<"c">>
td == <<"d">>
t1 == <<"1">>

\* lexemes of the binary operators
BinaryLexemes ==
    { <<"|", "|">>, <<"&", "&">>, <<"=", "=">>, <<"!", "=">>, <<"<">>,
      <<"<", "=">>, <<">">>, <<">", "=">>, <<"+">>, <<"-">>, <<"*">>, <<"/">>,
      <<"%">> }
UnaryLexemes == {<<"!">>, <<"-">>}
InfixLexemes == BinaryLexemes \cup {<<"=">>}

\* lexemes the unconstrained sequences are drawn from
ExprAlphabet ==
    { ta, t1, <<"=">>, <<"+">>, <<"*">>, <<"-">>, <<"<">>, <<"=", "=">>,
      <<"&", "&">>, <<"|", "|">>, <<"!">>, <<"(">>, <<")">>, <<",">> }

\* longest unconstrained sequence
MaxExprTokens == 3

\* left sides tried before `= 1`: a literal, a call, a binary and a unary
\* expression, a parenthesised variable, a variable
LeftSides ==
    { <<t1>>, <<ta, <<"(">>, <<")">>>>, <<ta, <<"+">>, tb>>, <<<<"-">>, ta>>,
      <<<<"(">>, ta, <<")">>>>, <<ta>> }

ParseCases ==
    [fn : {"parse"}, family : {"any"}, lexemes : SeqsUpTo(ExprAlphabet, MaxExprTokens)]
    \cup [fn : {"parse"}, family : {"infix"},
          lexemes : { <<ta, o1, tb, o2, tc>> : o1 \in InfixLexemes, o2 \in InfixLexemes }]
    \cup [fn : {"parse"}, family : {"infix"},
          lexemes : { <<ta, o1, tb, o2, tc, o3, td>> :
                        o1 \in BinaryLexemes, o2 \in BinaryLexemes, o3 \in BinaryLexemes }]
    \cup [fn : {"parse"}, family : {"infix"},
          lexemes : { <<u, ta, o1, tb, o2, tc>> :
                        u \in UnaryLexemes, o1 \in InfixLexemes, o2 \in InfixLexemes }
                    \cup { <<ta, o1, u, tb, o2, tc>> :
                        u \in UnaryLexemes, o1 \in InfixLexemes, o2 \in InfixLexemes }]
    \cup [fn : {"parse"}, family : {"infix"},
          lexemes : { <<<<"(">>, ta, o1, tb, <<")">>, o2, tc>> :
                        o1 \in InfixLexemes, o2 \in InfixLexemes }
                    \cup { <<ta, o1, <<"(">>, tb, o2, tc, <<")">>>> :
                        o1 \in InfixLexemes, o2 \in InfixLexemes }]
    \cup [fn : {"parse"}, family : {"left"},
          lexemes : { l \o <<<<"=">>, t1>> : l \in LeftSides }]

\* the tokens of func main() { e ; } with the sentinel: one line, the
\* column of a token is its position
ProgramPrefix == <<tfunc, tmain, <<"(">>, <<")">>, <<"{">>>>
ProgramTokens(lexemes) ==
    LET all == ProgramPrefix \o lexemes \o <<<<";">>, <<"}">>, tEOF>>
    IN [i \in 1..Len(all) |-> Token(all[i], 1, i)]

\* tokens before the expression
PrefixLen == Len(ProgramPrefix)

\* the lexemes separated by blanks
RECURSIVE Src(_)
Src(lexemes) ==
    IF lexemes = <<>> THEN <<>>
    ELSE IF Len(lexemes) = 1 THEN lexemes[1]
    ELSE lexemes[1] \o <<" ">> \o Src(Tail(lexemes))

\* pieces of source text the whole programs are built from: three
\* functions, a function whose body names EOF, and the identifiers EOF and x
\* between functions
ProgramPieces ==
    { <<tfunc, tf, <<"(">>, <<")">>, <<"{">>, <<"}">>>>,
      <<tfunc, tg, <<"(">>, tint, ta, <<")">>, <<"{">>, treturn, ta, <<";">>, <<"}">>>>,
      <<tfunc, tmain, <<"(">>, <<")">>, <<"{">>, tprint, t1, <<";">>, <<"}">>>>,
      <<tfunc, th, <<"(">>, <<")">>, <<"{">>, tEOF, <<";">>, <<"}">>>>,
      <<tEOF>>,
      <<tx>> }

\* most pieces in a program
MaxPieces == 3

\* the lexemes of the pieces one after the other
RECURSIVE Joined(_)
Joined(pieces) == IF pieces = <<>> THEN <<>> ELSE Head(pieces) \o Joined(Tail(pieces))

ProgramCases ==
    [fn : {"parse_program"}, family : {"pieces"},
     lexemes : {Joined(pieces) : pieces \in SeqsUpTo(ProgramPieces, MaxPieces)}]

InitParse ==
    /\ unit \in ParseCases \cup ProgramCases
    /\ out = Pending
    /\ DriverIdle

\* parse(tokens, source)
ParseCase ==
    /\ unit.fn = "parse"
    /\ ~out.done
    /\ out' = [done |-> TRUE, result |-> parse(ProgramTokens(unit.lexemes))]
    /\ UNCHANGED <<unit, DriverVars>>

\* the tokens of the lexemes with the sentinel, as ProgramTokens numbers them
PieceTokens(lexemes) ==
    [i \in 1..(Len(lexemes) + 1) |-> Token((lexemes \o <<tEOF>>)[i], 1, i)]

\* the tokens handed to parse and what it returned or raised
ParsedFrom(toks) == [done |-> TRUE, tokens |-> toks, result |-> parse(toks)]

\* parse(tokens, source) for the tokens of the pieces
ParseProgramCase ==
    /\ unit.fn = "parse_program"
    /\ ~out.done
    /\ out' = ParsedFrom(PieceTokens(unit.lexemes))
    /\ UNCHANGED <<unit, DriverVars>>

NextParse == ParseCase \/ ParseProgramCase

SpecParse == InitParse /\ [][NextParse]_vars


-----------------------------------------------------------------------------
(* Properties of the parser                                                *)

\* the expression of the statement in func main() { e ; }
ParsedExpr == out.result.node[1].body.statements[1].expr

\* the lexeme an operator of the tree was read from
OpLexeme(op) == CHOOSE l \in InfixLexemes \cup UnaryLexemes : Text(l) = op

RECURSIVE Flatten(_)
RECURSIVE FlattenArgs(_)
\* the lexemes of an expression tree, left to right
Flatten(e) ==
    CASE e.node = "LiteralExpr" -> <<NatStr(e.value.n)>>
      [] e.node = "VarExpr" -> <<e.name>>
      [] e.node = "UnaryExpr" -> <<OpLexeme(e.op)>> \o Flatten(e.operand)
      [] e.node = "BinaryExpr" ->
            Flatten(e.left) \o <<OpLexeme(e.op)>> \o Flatten(e.right)
      [] e.node = "GroupingExpr" -> <<<<"(">>>> \o Flatten(e.expr) \o <<<<")">>>>
      [] e.node = "AssignmentExpr" -> <<e.name, <<"=">>>> \o Flatten(e.value)
      [] e.node = "CallExpr" ->
            <<e.callee, <<"(">>>> \o FlattenArgs(e.args) \o <<<<")">>>>
FlattenArgs(args) ==
    IF args = <<>> THEN <<>>
    ELSE IF Len(args) = 1 THEN Flatten(args[1])
    ELSE Flatten(args[1]) \o <<<<",">>>> \o FlattenArgs(Tail(args))

\* binding strength of the operators, loosest first
Strength(op) ==
    CASE op = "||" -> 1
      [] op = "&&" -> 2
      [] op \in {"==", "!="} -> 3
      [] op \in {"<", "<=", ">", ">="} -> 4
      [] op \in {"+", "-"} -> 5
      [] op \in {"*", "/", "%"} -> 6

\* binding strength of the root of a tree: assignment loosest, then the
\* binary operators, the unary operators, the primaries
Level(e) ==
    CASE e.node = "AssignmentExpr" -> 0
      [] e.node = "BinaryExpr" -> Strength(e.op)
      [] e.node = "UnaryExpr" -> 7
      [] OTHER -> 8

RECURSIVE WellShaped(_)
\* every operand binds at least as tightly as its position demands: the
\* left operand of a binary operator at least as tightly as the operator,
\* its right operand strictly tighter, the operand of a unary operator at
\* least as tightly as a unary operator
WellShaped(e) ==
    CASE e.node = "BinaryExpr" ->
            /\ Level(e.left) >= Strength(e.op)
            /\ Level(e.right) > Strength(e.op)
            /\ WellShaped(e.left)
            /\ WellShaped(e.right)
      [] e.node = "UnaryExpr" -> Level(e.operand) >= 7 /\ WellShaped(e.operand)
      [] e.node = "GroupingExpr" -> WellShaped(e.expr)
      [] e.node = "AssignmentExpr" -> WellShaped(e.value)
      [] e.node = "CallExpr" -> \A i \in DOMAIN e.args : WellShaped(e.args[i])
      [] OTHER -> TRUE

IsIdentifierLexeme(l) == isalpha(l[1])

\* an `=` among the lexemes
HasAssign(lexemes) == \E i \in DOMAIN lexemes : lexemes[i] = <<"=">>

\* an `=` that does not directly follow a variable standing where an
\* assignment may begin (the start, after `=`, `(` or `,`)
MisplacedAssign(lexemes) ==
    \E i \in DOMAIN lexemes :
        /\ lexemes[i] = <<"=">>
        /\ ~ /\ i >= 2
             /\ IsIdentifierLexeme(lexemes[i - 1])
             /\ (i = 2 \/ lexemes[i - 2] \in {<<"=">>, <<"(">>, <<",">>})

\* C14: a = b = c parses as Assignment(a, Assignment(b, c)); every
\* assignment node of a parsed tree has a name on its left and a whole
\* assignment on its right; an `=` whose left side is not a bare variable
\* makes parse() fail with a token of the input (so with its line and
\* column), and a failed parse returns no tree.
AssignmentParsing ==
    (out.done /\ unit.fn = "parse") =>
        /\ unit.lexemes = <<ta, <<"=">>, tb, <<"=">>, tc>> =>
              /\ out.result.ok
              /\ ParsedExpr = AssignmentExpr(ta, AssignmentExpr(tb, VarExpr(tc)))
        /\ (out.result.ok /\ HasAssign(unit.lexemes)) =>
              /\ Flatten(ParsedExpr) = unit.lexemes
              /\ WellShaped(ParsedExpr)
        /\ MisplacedAssign(unit.lexemes) =>
              /\ ~out.result.ok
              /\ \E i \in 1..(PrefixLen + Len(unit.lexemes) + 3) :
                    out.result.tok = ProgramTokens(unit.lexemes)[i]
        /\ ~out.result.ok => out.result.node = NoNode

\* ( a ) = 1 was handed to the parser and refused
GroupedTargetRefused ==
    /\ out.done
    /\ unit.fn = "parse"
    /\ unit.lexemes = <<<<"(">>, ta, <<")">>, <<"=">>, t1>>
    /\ ~out.result.ok
    /\ out.result.tok = Token(t1, 1, PrefixLen + 5)

\* C15: a parsed expression reads back as the tokens it was parsed from
\* and every operand binds as tightly as its position demands (unary
\* tightest, then * / %, + -, the comparisons, == !=, &&, ||, assignment;
\* binary operators of one level group to the left); every operand/operator
\* chain without `=` parses; a + b * c is a + (b * c) and a - b - c is
\* (a - b) - c.
PrecedenceAndAssociativity ==
    (out.done /\ unit.fn = "parse") =>
        /\ out.result.ok =>
              /\ Flatten(ParsedExpr) = unit.lexemes
              /\ WellShaped(ParsedExpr)
        /\ (unit.family = "infix" /\ ~HasAssign(unit.lexemes)) =>
              out.result.ok
        /\ unit.lexemes = <<ta, <<"+">>, tb, <<"*">>, tc>> =>
              ParsedExpr = BinaryExpr(VarExpr(ta), "+",
                                      BinaryExpr(VarExpr(tb), "*", VarExpr(tc)))
        /\ unit.lexemes = <<ta, <<"-">>, tb, <<"-">>, tc>> =>
              ParsedExpr = BinaryExpr(BinaryExpr(VarExpr(ta), "-", VarExpr(tb)),
                                      "-", VarExpr(tc))

\* a * b + c - d was parsed: the product is the left operand of the sum,
\* the sum the left operand of the difference
MixedChainParsed ==
    /\ out.done
    /\ unit.fn = "parse"
    /\ unit.lexemes = <<ta, <<"*">>, tb, <<"+">>, tc, <<"-">>, td>>
    /\ out.result.ok
    /\ ParsedExpr.op = "-"
    /\ ParsedExpr.left.op = "+"
    /\ ParsedExpr.left.left.op = "*"


-----------------------------------------------------------------------------
(* The driver from the source text on                                      *)

\* func main ( ) { body }
MainSource(body) ==
    Src(<<tfunc, tmain, <<"(">>, <<")">>, <<"{">>>> \o body \o <<<<"}">>>>)

SourceLiterals ==
    { <<"0">>, <<"1">>, <<"2">>, <<"1", ".", "5">>, <<"\"", "s", "\"">>, ttrue }

\* func main() { return l op r ; }
ReturnBinarySources ==
    { MainSource(<<treturn, l, op, r, <<";">>>>) :
        l \in SourceLiterals, op \in BinaryLexemes, r \in SourceLiterals }

\* func main() { int x ; read x ; return 1 op x ; }
ReadSources ==
    { MainSource(<<tint, tx, <<";">>, tread, tx, <<";">>, treturn, t1, op, tx, <<";">>>>) :
        op \in {<<"+">>, <<"/">>, <<"%">>, <<"<">>} }

\* texts the lexer refuses: a character of no token, a string left open (at
\* the end of the text and at a line break), a comment left open
LexicalErrorSources ==
    { MainSource(<<treturn, t1, <<"@">>, t1, <<";">>>>),
      MainSource(<<tprint, <<"\"", "s">>, <<";">>>>),
      MainSource(<<tprint, <<"\"", "s", "\n", "\"">>, <<";">>>>),
      MainSource(<<treturn, t1, <<";">>>>) \o <<" ", "/", "*", " ", "c">>,
      <<"&", " ">> \o MainSource(<<treturn, t1, <<";">>>>) }

\* texts the parser refuses
ParseErrorSources ==
    { MainSource(<<treturn, t1, <<"=">>, t1, <<";">>>>),
      MainSource(<<treturn, <<"(">>, t1, <<";">>>>),
      MainSource(<<treturn, t1>>),
      MainSource(<<tint, <<";">>>>),
      Src(<<tfunc, tmain, <<"(">>, <<")">>, <<"{">>, treturn, t1, <<";">>>>),
      Src(<<tmain, <<"(">>, <<")">>, <<"{">>, <<"}">>>>),
      MainSource(<<treturn, <<"1", "e", "5">>, <<";">>>>) }

\* texts with comments and line breaks, and programs that fail in the
\* analyzer or in the machine
OtherSources ==
    { <<"#", " ", "c", "\n">> \o MainSource(<<treturn, t1, <<";">>>>),
      <<"/", "*", "c", "\n", "*", "/">> \o MainSource(<<treturn, t1, <<";">>>>),
      MainSource(<<treturn, t1, <<";">>>>) \o <<"\n", "#", "c">>,
      MainSource(<<treturn, tx, <<";">>>>),
      MainSource(<<tint, tx, <<";">>, treturn, tx, <<";">>>>),
      MainSource(<<tint, tx, <<"=">>, t1, <<";">>, tprint, tx, <<"*">>, <<"2">>, <<";">>,
                   treturn, tx, <<";">>>>),
      MainSource(<<tprint, <<"\"", "s", "\"">>, <<";">>>>),
      MainSource(<<>>),
      <<>> }

Sources ==
    ReturnBinarySources \cup ReadSources \cup LexicalErrorSources
    \cup ParseErrorSources \cup OtherSources

InitMain ==
    /\ unit = Idle
    /\ out = Pending
    /\ source_code \in Sources
    /\ tokens = <<>>
    /\ program = <<>>
    /\ phase = "lex"
    /\ error_kind = "none"
    /\ exit_code = -1
    /\ sem = NewAnalyzer
    /\ ir = <<>>
    /\ optimized_ir = <<>>
    /\ vm = NoVM
    /\ refvm = NoVM

NextMain ==
    \/ Tokenize
    \/ Parse
    \/ Analyze
    \/ GenerateIR
    \/ Optimize
    \/ RunIRProgram
    \/ RunStep
    \/ Exit
    \/ ReferenceRun
    \/ ReferenceStep
    \/ ReferenceExit

SpecMain == InitMain /\ [][NextMain]_vars


-----------------------------------------------------------------------------
(* Properties of the driver from the source text on                        *)

\* position of a pass in the order of main(); 6 once main() has returned
PassIndex(ph) ==
    CASE ph = "lex" -> 0
      [] ph = "parse" -> 1
      [] ph = "semantic" -> 2
      [] ph = "irgen" -> 3
      [] ph = "optimize" -> 4
      [] ph = "vm" -> 5
      [] OTHER -> 6

\* no pass from the one with index k on has been started
NotStartedFrom(k) ==
    /\ k <= 0 => tokens = <<>>
    /\ k <= 1 => program = <<>>
    /\ k <= 2 => sem = NewAnalyzer
    /\ k <= 3 => ir = <<>>
    /\ k <= 4 => optimized_ir = <<>>
    /\ k <= 5 => vm = NoVM

\* the pass with index k has run and failed
PassFailed(k) ==
    /\ PassIndex(phase) > k
    /\ CASE k = 0 -> ~tokenize(source_code).ok
         [] k = 1 -> tokenize(source_code).ok /\ ~parse(tokens).ok
         [] k = 2 -> sem.err # "none"
         [] k = 3 -> FALSE
         [] k = 4 -> /\ tokenize(source_code).ok /\ parse(tokens).ok
                     /\ sem # NewAnalyzer /\ sem.err = "none"
                     /\ ~optimize(ir).ok
         [] k = 5 -> vm.status = "error"

\* every pass has run, each on the result of the pass before it, and none
\* failed
AllPassesCompleted ==
    /\ tokenize(source_code).ok
    /\ tokens = tokenize(source_code).tokens
    /\ parse(tokens).ok
    /\ program = parse(tokens).node
    /\ sem = analyze(program)
    /\ sem.err = "none"
    /\ ir = generate_ir(program)
    /\ optimize(ir).ok
    /\ optimized_ir = optimize(ir).instrs
    /\ vm.status = "halted"

-----------------------------------------------------------------------------
(* Properties of the virtual machine inside the driver                     *)

\* the instruction machine m is about to execute (NoNode past the end)
CurrentInstr(m) ==
    IF m.status = "running" /\ m.ip <= Len(m.instructions)
    THEN m.instructions[m.ip] ELSE [kind |-> "none"]

\* machine m is about to execute a `/` or `%` whose right operand decodes
\* to zero
DividesByZero(m) ==
    /\ CurrentInstr(m).kind = "BinaryOp"
    /\ CurrentInstr(m).op \in {"/", "%"}
    /\ LET b == _get(m.env, CurrentInstr(m).right)
       IN b.ok /\ IsNum(b.v) /\ NumP(b.v) = 0

\* the step from m to n stopped with a vm-error and wrote nothing
StoppedWithVMError(m, n) ==
    /\ n.status = "error"
    /\ ExceptClause(n.err) = "vm-error"
    /\ n.env = m.env

\* C17: a step of the VM that executes `/` or `%` with a right operand
\* decoding to zero stops the run with a vm-error and leaves the
\* environment, the destination included, as it was.
DivisionByZeroIsVMError ==
    [][/\ (DividesByZero(vm) /\ vm' # vm) => StoppedWithVMError(vm, vm')
       /\ (DividesByZero(refvm) /\ refvm' # refvm) => StoppedWithVMError(refvm, refvm')]_vars


\* the text print writes for what the function named callee prints
PrintedBy(callee) == IF callee = tf THEN <<"7">> ELSE <<"8">>

\* the logical expression of a program of LogicalPrograms: the initializer
\* of y in main
LogicalExpr ==
    LET statements == program[Len(program)].body.statements
        i == CHOOSE j \in 1..Len(statements) :
                statements[j].node = "VarDeclStmt" /\ statements[j].name = ty
    IN statements[i].initializer

\* machine m is about to execute `&&` or `||` and one operand does not decode
UndecodableLogicalOperand(m) ==
    /\ CurrentInstr(m).kind = "BinaryOp"
    /\ CurrentInstr(m).op \in {"&&", "||"}
    /\ \/ ~_get(m.env, CurrentInstr(m).left).ok
       \/ ~_get(m.env, CurrentInstr(m).right).ok

\* what a machine that ran a program of LogicalPrograms to its end shows of
\* the right operand
RightOperandEvaluated(m) ==
    /\ (m.status = "halted" /\ program \in AssignRightPrograms) =>
            /\ Len(m.stdout) = 2
            /\ m.stdout[1] = <<"1">>
    /\ (m.status = "halted" /\ program \in CallRightPrograms) =>
            /\ Len(m.stdout) = 2
            /\ m.stdout[1] = <<"7">>
    /\ (m.status = "halted" /\ program \in CallBothPrograms) =>
            /\ Len(m.stdout) = 3
            /\ m.stdout[1] = PrintedBy(LogicalExpr.left.callee)
            /\ m.stdout[2] = PrintedBy(LogicalExpr.right.callee)
    /\ program \in UninitializedRightPrograms =>
            /\ m.status # "halted"
            /\ m.stdout = <<>>
            /\ m.status = "error" => ExceptClause(m.err) = "vm-error"

\* C18: the code generated for a && b and a || b has no jump (both operand
\* lowerings are executed, left before right); the VM fails on an operand
\* that does not decode whatever the other operand is; so the assignment
\* and the call in the right operand take effect, and the uninitialized
\* right operand stops the run, whatever the left operand.
NoShortCircuit ==
    /\ [](/\ program \in LogicalPrograms =>
                \A i \in 1..Len(ir) : ir[i].kind \notin {"Goto", "IfGoto", "Label"}
          /\ RightOperandEvaluated(vm)
          /\ RightOperandEvaluated(refvm))
    /\ [][/\ (UndecodableLogicalOperand(vm) /\ vm' # vm) =>
                vm'.status = "error" /\ vm'.env = vm.env
          /\ (UndecodableLogicalOperand(refvm) /\ refvm' # refvm) =>
                refvm'.status = "error" /\ refvm'.env = refvm.env]_vars

\* false && (x = true) was run by the driver's machine to its end: x is
\* printed as 1, the conjunction as 0
AssignmentBehindFalseRan ==
    /\ program \in AssignRightPrograms
    /\ LogicalExpr.left = Lit(BoolV(FALSE))
    /\ LogicalExpr.op = "&&"
    /\ vm.status = "halted"
    /\ vm.stdout = << <<"1">>, <<"0">> >>


-----------------------------------------------------------------------------
(* The virtual machine on the IR of programs that pass arguments:          *)
(* run_ir_program(generate_ir(program), func_param_names), with and        *)
(* without optimize(), the analyzer left out                               *)

tp == <<"p">>
tr == <<"r">>

\* func g() { return 2; }
ReturnsTwo == FunctionDecl(tg, <<>>, BlockStmt(<<ReturnStmt(IntLit(2))>>))
\* func f(int a, int b) { return a - b; }
Difference ==
    FunctionDecl(tf, <<Param("int", ta), Param("int", tb)>>,
                 BlockStmt(<<ReturnStmt(BinaryExpr(Var(ta), "-", Var(tb)))>>))
\* func h(int a) { int x = 5; a = a + 1; return a; }
Successor ==
    FunctionDecl(th, <<Param("int", ta)>>,
                 BlockStmt(<<VarDeclStmt("int", tx, IntLit(5)),
                             ExprStmt(AssignmentExpr(ta, BinaryExpr(Var(ta), "+", IntLit(1)))),
                             ReturnStmt(Var(ta))>>))
\* func p(int a) { a = 9; x = 8; return; }
Procedure ==
    FunctionDecl(tp, <<Param("int", ta)>>,
                 BlockStmt(<<ExprStmt(AssignmentExpr(ta, IntLit(9))),
                             ExprStmt(AssignmentExpr(tx, IntLit(8))),
                             ReturnStmt(NoNode)>>))

\* func r(int n) { int x = n; if (n > 0) { int y = r(n - 1); x = x + y; } return x; }
Recursive ==
    FunctionDecl(tr, <<Param("int", tn)>>,
                 BlockStmt(<<VarDeclStmt("int", tx, Var(tn)),
                             IfStmt(BinaryExpr(Var(tn), ">", IntLit(0)),
                                    BlockStmt(<<VarDeclStmt("int", ty,
                                                  CallExpr(tr, <<BinaryExpr(Var(tn), "-", IntLit(1))>>)),
                                                ExprStmt(AssignmentExpr(tx,
                                                  BinaryExpr(Var(tx), "+", Var(ty))))>>),
                                    NoNode),
                             ReturnStmt(Var(tx))>>))

\* the arguments of the calls
ArgExprs ==
    { IntLit(3), Var(tx), CallExpr(tg, <<>>), CallExpr(tf, <<IntLit(3), Var(tx)>>) }

\* func main() { int x = 1; print f(e1, e2); return 0; }
TwoArgPrograms ==
    { <<ReturnsTwo, Difference,
        Main(<<VarDeclStmt("int", tx, IntLit(1)),
               PrintStmt(CallExpr(tf, <<e1, e2>>)), Return0>>)>> :
        e1 \in ArgExprs, e2 \in ArgExprs }

\* func main() { int x = 1; int a = 2; int y = c; print x; print a; print y; return 0; }
\* for calls c of h and p with the right number of arguments, nested calls
\* of h, and calls with the wrong number of arguments or of no function
OneCallPrograms ==
    { <<callee,
        Main(<<VarDeclStmt("int", tx, IntLit(1)),
               VarDeclStmt("int", ta, IntLit(2)),
               VarDeclStmt("int", ty, CallExpr(callee.name, args)),
               PrintStmt(Var(tx)), PrintStmt(Var(ta)), PrintStmt(Var(ty)), Return0>>)>> :
        callee \in {Successor, Procedure, ReturnsTwo},
        args \in { <<>>, <<Var(ta)>>, <<CallExpr(th, <<Var(tx)>>)>>,
                   <<CallExpr(tn, <<>>)>> } }

\* func main() { int x = 7; print r(1); print x; return 0; }
RecursivePrograms ==
    { <<Recursive,
        Main(<<VarDeclStmt("int", tx, IntLit(7)),
               PrintStmt(CallExpr(tr, <<IntLit(1)>>)),
               PrintStmt(Var(tx)), Return0>>)>> }

VMPrograms == TwoArgPrograms \cup OneCallPrograms \cup RecursivePrograms

InitVM ==
    /\ unit = Idle
    /\ out = Pending
    /\ source_code = <<>>
    /\ tokens = <<>>
    /\ program \in VMPrograms
    /\ phase = "irgen"
    /\ error_kind = "none"
    /\ exit_code = -1
    /\ sem = NewAnalyzer
    /\ ir = <<>>
    /\ optimized_ir = <<>>
    /\ vm = NoVM
    /\ refvm = NoVM

NextVM ==
    \/ GenerateIR
    \/ Optimize
    \/ RunIRProgram
    \/ RunStep
    \/ Exit
    \/ ReferenceRun
    \/ ReferenceStep
    \/ ReferenceExit

SpecVM == InitVM /\ [][NextVM]_vars

-----------------------------------------------------------------------------
(* Properties of calls and returns, on the machine given the IR of the     *)
(* generator                                                               *)

\* machine m is about to execute a Call whose callee is known, whose count
\* is covered by the pending arguments and equals the number of declared
\* parameters of the callee
CallReady(m) ==
    /\ CurrentInstr(m).kind = "CallInstr"
    /\ CurrentInstr(m).callee \in DOMAIN m.func_labels
    /\ CurrentInstr(m).callee \in DOMAIN m.func_params
    /\ CurrentInstr(m).arg_count <= Len(m.arg_stack)
    /\ Len(m.func_params[CurrentInstr(m).callee]) = CurrentInstr(m).arg_count

\* the step from m to n removed exactly the last arg_count pending values and
\* entered the callee in an environment of its parameters alone
CalleeEntered(m, n) ==
    LET ins == CurrentInstr(m)
        count == ins.arg_count
        depth == Len(m.arg_stack)
        params == m.func_params[ins.callee]
    IN /\ n.status = "running"
       /\ n.arg_stack = SubSeq(m.arg_stack, 1, depth - count)
       /\ n.ip = m.func_labels[ins.callee] + 1
       /\ n.current_func = ins.callee
       /\ DOMAIN n.env = {params[i] : i \in 1..count}
       /\ \A i \in 1..count : n.env[params[i]] = m.arg_stack[depth - count + i]

\* C19: a Call(d, callee, n) executed with at least n pending arguments and
\* a callee of n declared parameters, n = 0 included, removes exactly the
\* last n pending values and leaves the earlier ones pending in place; the
\* callee starts at func_labels[callee] + 1 in a fresh environment binding
\* its i-th parameter to the i-th of those values and holding no other name
CallPopsLastArguments ==
    [][/\ (CallReady(vm) /\ vm'.steps = vm.steps + 1) => CalleeEntered(vm, vm')
       /\ (CallReady(refvm) /\ refvm'.steps = refvm.steps + 1)
              => CalleeEntered(refvm, refvm')]_vars

\* the same for the calls with at least one argument
CallWithArgumentsPopsThem ==
    [][/\ (CallReady(vm) /\ CurrentInstr(vm).arg_count > 0
              /\ vm'.steps = vm.steps + 1) => CalleeEntered(vm, vm')
       /\ (CallReady(refvm) /\ CurrentInstr(refvm).arg_count > 0
              /\ refvm'.steps = refvm.steps + 1)
              => CalleeEntered(refvm, refvm')]_vars


\* the value a Return about to be executed by m decodes
ReturnedValue(m) ==
    IF CurrentInstr(m).has_value THEN _get(m.env, CurrentInstr(m).value)
    ELSE Ok(NoneV)

\* the step from m to n executed a Call that entered its callee: one Frame
\* holding the caller's function, environment, the index after the Call and
\* the Call's dest was pushed on the frames there were
FramePushed(m, n) ==
    n.frames = Append(m.frames,
                      Frame(m.current_func, m.env, m.ip + 1,
                            CurrentInstr(m).has_dest, CurrentInstr(m).dest))

\* the step from m to n executed a Return in a called function: the last
\* Frame alone was popped and the machine is where that Frame says, in the
\* Frame's environment with at most ret_dest changed
FramePopped(m, n) ==
    LET frame == m.frames[Len(m.frames)]
        rv == ReturnedValue(m).v
    IN /\ n.status = "running"
       /\ n.frames = SubSeq(m.frames, 1, Len(m.frames) - 1)
       /\ n.ip = frame.return_ip
       /\ n.current_func = frame.func_name
       /\ n.env = IF frame.has_ret_dest /\ rv.k # "none"
                  THEN (frame.ret_dest :> rv) @@ frame.env
                  ELSE frame.env
       /\ n.return_value = m.return_value

\* the step from m to n executed a Return with no Frame: the value is the
\* program's return value and the run is over
ProgramReturned(m, n) ==
    /\ n.status = "halted"
    /\ n.return_value = ReturnedValue(m).v
    /\ n.frames = <<>>
    /\ n.env = m.env

\* one step of machine m to n keeps the frame discipline
FrameStep(m, n) ==
    /\ CallReady(m) => FramePushed(m, n)
    /\ (CurrentInstr(m).kind = "ReturnInstr" /\ ReturnedValue(m).ok /\ m.frames # <<>>)
           => FramePopped(m, n)
    /\ (CurrentInstr(m).kind = "ReturnInstr" /\ ReturnedValue(m).ok /\ m.frames = <<>>)
           => ProgramReturned(m, n)
    /\ (CurrentInstr(m).kind # "ReturnInstr" /\ ~CallReady(m)) => n.frames = m.frames

\* what the calling programs show of their callers: h(a) and h(h(x)) return
\* 3 and r(1) returns 1, main's x = 7 is printed after r assigned its own x
\* in two activations, and whenever main runs with its x and a declared
\* they are 1 and 2, though h and p assign a and x
CallerUnchanged(m) ==
    /\ (m.status = "halted" /\ program \in RecursivePrograms) =>
           m.stdout = << <<"1">>, <<"7">> >>
    /\ (m.status = "halted" /\ program \in OneCallPrograms /\ program[1] = Successor) =>
           m.stdout = << <<"1">>, <<"2">>, <<"3">> >>
    /\ (program \in OneCallPrograms /\ m.current_func = tmain
           /\ {tx, ta} \subseteq DOMAIN m.env) =>
           m.env[tx] = IntV(1) /\ m.env[ta] = IntV(2)

\* C20: a Return executed in a called function pops exactly one Frame and
\* resumes after the Call in the caller's function, in the environment the
\* caller had when the Call executed, changed only in ret_dest holding the
\* returned value when the Call has a dest and a value was returned; nothing
\* the callee assigned, recursive activations included, shows in the caller;
\* a Return with no Frame stores the program's return value and halts
FrameDiscipline ==
    /\ [](CallerUnchanged(vm) /\ CallerUnchanged(refvm))
    /\ [][/\ vm'.steps = vm.steps + 1 => FrameStep(vm, vm')
          /\ refvm'.steps = refvm.steps + 1 => FrameStep(refvm, refvm')]_vars

\* the outer activation of r(1) has resumed after its call r(0): one Frame
\* (main's) is left, n and x are 1 again though the inner activation had
\* set both to 0, and the dest of the Call holds the 0 returned
RecursiveReturnResumed ==
    /\ program \in RecursivePrograms
    /\ vm.status = "running"
    /\ vm.current_func = tr
    /\ Len(vm.frames) = 1
    /\ vm.instructions[vm.ip - 1].kind = "CallInstr"
    /\ vm.env[tn] = IntV(1)
    /\ vm.env[tx] = IntV(1)
    /\ vm.env[vm.instructions[vm.ip - 1].dest] = IntV(0)


-----------------------------------------------------------------------------
(* Properties of nested calls, on the machine given the IR of the generator *)

\* the two arguments of the call f(e1, e2) that main prints
PrintedCallArgs == program[3].body.statements[2].expr.args

\* the value of an argument of ArgExprs where main evaluates it: x is 1,
\* g() is 2 and f(3, x) is 3 - 1
ArgValue(e) ==
    CASE e = IntLit(3) -> 3
      [] e = Var(tx) -> 1
      [] e = CallExpr(tg, <<>>) -> 2
      [] e = CallExpr(tf, <<IntLit(3), Var(tx)>>) -> 2

\* machine m runs an activation of f whose Call is followed by an
\* instruction of the given kind: Print after the call main prints, Param
\* after a call that is an argument
InActivationBefore(m, kind) ==
    /\ m.status = "running"
    /\ m.current_func = tf
    /\ Len(m.frames) = 1
    /\ m.instructions[m.frames[1].return_ip].kind = kind

\* machine m on print f(e1, e2): no step fails; the activation of the
\* printed call has a and b bound to the values of e1 and e2, an activation
\* of f called as an argument has a = 3 and b = 1; the difference of the
\* two values is printed
NestedBound(m) ==
    program \in TwoArgPrograms =>
        /\ m.status # "error"
        /\ InActivationBefore(m, "PrintInstr") =>
               /\ m.env[ta] = IntV(ArgValue(PrintedCallArgs[1]))
               /\ m.env[tb] = IntV(ArgValue(PrintedCallArgs[2]))
        /\ InActivationBefore(m, "ParamInstr") =>
               m.env[ta] = IntV(3) /\ m.env[tb] = IntV(1)
        /\ m.status = "halted" =>
               m.stdout = << IntStr(ArgValue(PrintedCallArgs[1])
                                    - ArgValue(PrintedCallArgs[2])) >>

\* the step from m to n executed the Call of main's print statement: nothing
\* is pending afterwards, as before the first Param of the expression
OutermostCallBalanced(m, n) ==
    (program \in TwoArgPrograms /\ m.status = "running" /\ m.current_func = tmain
        /\ CurrentInstr(m).kind = "CallInstr"
        /\ m.instructions[m.ip + 1].kind = "PrintInstr" /\ n.steps = m.steps + 1)
        => (n.status = "running" /\ n.arg_stack = <<>>)

\* C21: for print f(e1, e2) with e1 and e2 literals, variables and calls of
\* zero and of two arguments, the Param/Call sequence of the generator run
\* by the machine binds the parameters of every callee to its own argument
\* values in source order, and the Call of the outermost expression leaves
\* the pending arguments as deep as before the expression's first Param
NestedCallsBindOwnArguments ==
    /\ [](NestedBound(vm) /\ NestedBound(refvm))
    /\ [][OutermostCallBalanced(vm, vm') /\ OutermostCallBalanced(refvm, refvm')]_vars

\* the same for the programs in which no call without arguments is lowered
\* while an argument is pending (e2 is not g())
NestedCallsWithNothingPending ==
    /\ []((program \in TwoArgPrograms /\ PrintedCallArgs[2] # CallExpr(tg, <<>>))
             => NestedBound(vm) /\ NestedBound(refvm))
    /\ [][(program \in TwoArgPrograms /\ PrintedCallArgs[2] # CallExpr(tg, <<>>)) =>
            OutermostCallBalanced(vm, vm') /\ OutermostCallBalanced(refvm, refvm')]_vars


-----------------------------------------------------------------------------
(* Properties of the for-loop, on the machine inside the driver *)

\* the for statement of a program of ForPrograms: the statement before the
\* final return
ForOf(prog) == prog[1].body.statements[Len(prog[1].body.statements) - 1]

\* the lines `print x` has written after k entries of the body, x starting
\* at 0 and incremented by the update when there is one
PrintedByFor(k, update) == [i \in 1..k |-> IntStr(IF update THEN i - 1 ELSE 0)]

\* the for statement leaves its loop: it has a condition x < n, and either
\* n is 0 or the update increments x
ForLeaves(stmt) ==
    /\ stmt.condition.node # "None"
    /\ stmt.update.node # "None" \/ stmt.condition.right.value.n = 0

\* the number of times the body of the for statement runs when it leaves
ForEntries(stmt) == stmt.condition.right.value.n

\* machine m on for (init; cond; update) { print x; } return 0;
ForRun(m) ==
    program \in ForPrograms =>
        /\ m.status # "error"
        /\ m.stdout = PrintedByFor(Len(m.stdout), ForOf(program).update.node # "None")
        /\ ForLeaves(ForOf(program)) =>
               /\ Len(m.stdout) <= ForEntries(ForOf(program))
               /\ m.status = "running" => m.steps < MaxSteps
        /\ m.status = "halted" =>
               /\ ForLeaves(ForOf(program))
               /\ Len(m.stdout) = ForEntries(ForOf(program))
               /\ m.return_value = IntV(0)
        /\ (~ForLeaves(ForOf(program)) /\ m.steps = MaxSteps) => Len(m.stdout) >= 2

\* C22: the stream generated for for (init; x < n; x = x + 1) { print x; },
\* each clause present or absent, run by the machine on the optimized and on
\* the generated IR: init runs once (the lines are 0, 1, ...), the body runs
\* before the update, the loop is left when the condition is 0 (n lines with
\* the update, none when n = 0) and the run reaches return 0; without a
\* condition, or with a condition the body never falsifies, the body is
\* entered again and again and the machine never halts
ForLoopLowering == ForRun(vm) /\ ForRun(refvm)

\* for (int x = 0; x < 2; x = x + 1) { print x; } has run to the end on the
\* optimized IR: two lines, 0 and 1
ForLoopRanTwice ==
    /\ program \in ForPrograms
    /\ ForOf(program).init.node # "None"
    /\ ForOf(program).update.node # "None"
    /\ ForOf(program).condition.node # "None"
    /\ vm.status = "halted"
    /\ vm.stdout = << <<"0">>, <<"1">> >>
    /\ vm.env[tx] = IntV(2)


-----------------------------------------------------------------------------
(* The driver from the analyzer on, for programs whose variable is spelled *)
(* like a temporary or not, programs that declare a name again in a       *)
(* nested scope, and programs whose functions end without a return        *)

\* the names of the variable: t0 .. t3, x and tot
VariableSpellings == { <<"t">> \o NatStr(i) : i \in 0..3 } \cup {tx, ttot}

\* func main() { int v = 5; print v op 1; return 0; }
TempNamePrograms ==
    { <<Main(<<VarDeclStmt("int", v, IntLit(5)),
               PrintStmt(BinaryExpr(Var(v), op, IntLit(1))), Return0>>)>> :
        v \in VariableSpellings, op \in {"+", "*"} }

\* the nested statements that declare v and give it a value other than 1:
\* { int v = 2; }   { int v; v = 2; }   if (true) { int v = 2; }
\* for (int v = 5; v < 6; v = v + 1) { }
NestedDeclarations(v) ==
    { BlockStmt(<<VarDeclStmt("int", v, IntLit(2))>>),
      BlockStmt(<<VarDeclStmt("int", v, NoNode),
                  ExprStmt(AssignmentExpr(v, IntLit(2)))>>),
      IfStmt(Lit(BoolV(TRUE)), BlockStmt(<<VarDeclStmt("int", v, IntLit(2))>>), NoNode),
      ForStmt(VarDeclStmt("int", v, IntLit(5)),
              BinaryExpr(Var(v), "<", IntLit(6)),
              AssignmentExpr(v, BinaryExpr(Var(v), "+", IntLit(1))),
              BlockStmt(<<>>)) }

\* func main() { int x = 1; nested; print x; return 0; } with the nested
\* statement declaring x again, or y
ShadowPrograms ==
    { <<Main(<<VarDeclStmt("int", tx, IntLit(1)), nested,
               PrintStmt(Var(tx)), Return0>>)>> :
        nested \in NestedDeclarations(tx) \cup NestedDeclarations(ty) }

\* a function g without parameters and a main, each ending in a return or
\* not, in either order; main calls g first or not:
\* func g() { print 2; [return 5;] } func main() { [g();] print 1; [return 0;] }
OpenBodyPrograms ==
    { IF main_first THEN <<m, g>> ELSE <<g, m>> :
        main_first \in BOOLEAN,
        g \in { FunctionDecl(tg, <<>>, BlockStmt(<<PrintStmt(IntLit(2))>> \o r)) :
                   r \in {<<>>, <<ReturnStmt(IntLit(5))>>} },
        m \in { Main(c \o <<PrintStmt(IntLit(1))>> \o r) :
                   c \in {<<>>, <<ExprStmt(CallExpr(tg, <<>>))>>},
                   r \in {<<>>, <<Return0>>} } }

InitNames ==
    /\ unit = Idle
    /\ out = Pending
    /\ source_code = <<>>
    /\ tokens = <<>>
    /\ program \in TempNamePrograms \cup ShadowPrograms \cup OpenBodyPrograms
    /\ phase = "semantic"
    /\ error_kind = "none"
    /\ exit_code = -1
    /\ sem = NewAnalyzer
    /\ ir = <<>>
    /\ optimized_ir = <<>>
    /\ vm = NoVM
    /\ refvm = NoVM

SpecNames == InitNames /\ [][Next]_vars

-----------------------------------------------------------------------------
(* Properties of the temporaries *)

\* the names new_temp returned while the program was lowered
TempNames ==
    { <<"t">> \o NatStr(i) :
        i \in 0..(GenFunctionsFrom(NewGenerator, program, 1).temp_count - 1) }

\* what print v op 1 writes with v = 5
PrintedOfFive ==
    IF program[1].body.statements[2].expr.op = "+" THEN <<"6">> ELSE <<"5">>

\* constant propagation left every read of a program variable in a binary
\* operation of the generated IR as it was
VariableReadsKept ==
    \A i \in 1..Len(ir) :
        (ir[i].kind = "BinaryOp" /\ ir[i].left \in ProgramVariables) =>
            /\ constant_propagation(ir).instrs[i].kind = "BinaryOp"
            /\ constant_propagation(ir).instrs[i].left = ir[i].left

\* the program's variable keeps its value 5 from its declaration on and the
\* value printed is computed from it, on either machine
VariableKeepsValue(m) ==
    /\ (m.status = "running" /\ program[1].body.statements[1].name \in DOMAIN m.env
           /\ m.instructions[m.ip - 1].kind # "Assign")
           => m.env[program[1].body.statements[1].name] = IntV(5)
    /\ m.status = "halted" => m.stdout = <<PrintedOfFive>>

TemporariesApart ==
    /\ TempNames \cap ProgramVariables = {}
    /\ VariableReadsKept
    /\ VariableKeepsValue(vm)
    /\ VariableKeepsValue(refvm)

\* C23: no name returned by new_temp while a program is lowered is the name
\* of a variable or parameter the program declares, so writing a temporary
\* never changes a program variable (print v op 1 after int v = 5 writes
\* 5 op 1) and constant propagation never puts a literal in place of a read
\* of a program variable
TemporariesDisjoint == program \in TempNamePrograms => TemporariesApart

\* the same for the programs whose variable is x or tot
TemporariesDisjointFromOtherSpellings ==
    (program \in TempNamePrograms
        /\ program[1].body.statements[1].name \in {tx, ttot}) => TemporariesApart


-----------------------------------------------------------------------------
(* Properties of shadowing *)

\* machine m on int x = 1; nested; print x; return 0;  the x the program
\* reads after the nested statement is the outer one, whose value is 1
OuterValueRead(m) == m.status = "halted" => m.stdout = << <<"1">> >>

\* C24: when a nested block, if branch or for-loop declares a variable of
\* the name of a variable of the enclosing scope, which the analyzer
\* accepts, initializing or assigning the inner variable leaves the value of
\* the outer variable that the program prints after the nested scope, on
\* the optimized and on the generated IR
ShadowingPreserved ==
    program \in ShadowPrograms =>
        /\ sem.err = "none"
        /\ OuterValueRead(vm)
        /\ OuterValueRead(refvm)

\* the same for the programs whose nested scope declares y
OtherNameLeavesOuter ==
    (program \in ShadowPrograms /\ ty \in ProgramVariables) =>
        /\ sem.err = "none"
        /\ OuterValueRead(vm)
        /\ OuterValueRead(refvm)


-----------------------------------------------------------------------------
(* Properties of the ends of the function bodies *)

\* the function whose FuncLabel is the last one at or before index i of the
\* instructions of machine m
RECURSIVE FunctionAt(_, _)
FunctionAt(m, i) ==
    IF i = 0 THEN <<>>
    ELSE IF i <= Len(m.instructions) /\ m.instructions[i].kind = "FuncLabel"
    THEN m.instructions[i].name
    ELSE FunctionAt(m, i - 1)

\* every body of the program ends with a return statement
EveryBodyReturns ==
    \A f \in 1..Len(program) :
        /\ program[f].body.statements # <<>>
        /\ program[f].body.statements[Len(program[f].body.statements)].node = "ReturnStmt"

\* machine m executes instructions of the function of its activation only,
\* never arrives at a FuncLabel, and has no Frame left when its loop ended
BodiesClosed(m) ==
    /\ (m.status = "running" /\ m.ip <= Len(m.instructions)) =>
           /\ m.instructions[m.ip].kind # "FuncLabel"
           /\ FunctionAt(m, m.ip) = m.current_func
    /\ m.status = "halted" => m.frames = <<>>

\* what the programs of OpenBodyPrograms write when every body is closed:
\* main writes 2 first if it calls g, then 1; g writes nothing more
ClosedOutput(m) ==
    m.status = "halted" =>
        m.stdout = (IF program[IF program[1].name = tmain THEN 1 ELSE 2]
                          .body.statements[1].node = "ExprStmt"
                    THEN << <<"2">>, <<"1">> >> ELSE << <<"1">> >>)

\* C25: an activation that reaches the end of its function's instructions
\* without a Return does not go on into the instructions of the function
\* declared next: the machine only executes instructions of the function of
\* its activation, main halts there, a called function gives control back
\* after its Call (the lines written are those of the calls made), and when
\* the loop of run() has ended no Frame is left
FunctionBodiesClosed ==
    program \in OpenBodyPrograms =>
        /\ BodiesClosed(vm) /\ ClosedOutput(vm)
        /\ BodiesClosed(refvm) /\ ClosedOutput(refvm)

\* the same for the programs in which every body ends with a return
ReturningBodiesClosed ==
    (program \in OpenBodyPrograms /\ EveryBodyReturns) =>
        /\ BodiesClosed(vm) /\ ClosedOutput(vm)
        /\ BodiesClosed(refvm) /\ ClosedOutput(refvm)


-----------------------------------------------------------------------------
(* Properties of the kinds of the operands *)

\* machine m is about to execute a binary operation on operands it does not
\* support: not a `+` with a string operand, and an operand that is not a
\* number, or a `%` with an operand that is not an int
UnsupportedOperands(m) ==
    /\ CurrentInstr(m).kind = "BinaryOp"
    /\ _get(m.env, CurrentInstr(m).left).ok
    /\ _get(m.env, CurrentInstr(m).right).ok
    /\ ~(CurrentInstr(m).op = "+"
           /\ "str" \in {_get(m.env, CurrentInstr(m).left).v.k,
                         _get(m.env, CurrentInstr(m).right).v.k})
    /\ \/ ~IsNum(_get(m.env, CurrentInstr(m).left).v)
       \/ ~IsNum(_get(m.env, CurrentInstr(m).right).v)
       \/ /\ CurrentInstr(m).op = "%"
          /\ {_get(m.env, CurrentInstr(m).left).v.k,
              _get(m.env, CurrentInstr(m).right).v.k} # {"int"}

\* the analyzer accepted the program, which has no read
AcceptedWithoutRead ==
    /\ phase \notin {"semantic", "irgen"}
    /\ sem.err = "none"
    /\ \A i \in 1..Len(ir) : ir[i].kind # "ReadInstr"

\* the program is return l op r for two string literals and a comparison
ComparesStrings ==
    /\ program \in ReturnBinaryPrograms
    /\ program[1].body.statements[1].value.op \in {"<", "<=", ">", ">=", "==", "!="}
    /\ program[1].body.statements[1].value.left.value.k = "str"
    /\ program[1].body.statements[1].value.right.value.k = "str"

\* neither the optimizer nor a machine meets operands its operator does not
\* support, and a comparison of two strings returns 0 or 1
OperandsSupported ==
    /\ optimize(ir).err # "RuntimeError"
    /\ ~UnsupportedOperands(vm)
    /\ ~UnsupportedOperands(refvm)
    /\ (ComparesStrings /\ refvm.status \notin {"new", "running"}) =>
           /\ refvm.status = "halted"
           /\ refvm.return_value \in {IntV(0), IntV(1)}

\* C26: in a program the analyzer accepts and that has no read, every
\* binary operation the optimizer folds or a machine executes has operands
\* of kinds its operator supports, so neither stops for operands that are
\* strings or not numeric; a comparison of two strings evaluates to 0 or 1
BinaryOperandsSound == AcceptedWithoutRead => OperandsSupported


\* the same for the programs whose IR holds no string literal and no
\* division (whose quotient of two ints is a float for the optimizer and for
\* the machine when it is not whole)
NumericOperandsSound ==
    (AcceptedWithoutRead
        /\ \A i \in 1..Len(ir) :
              /\ ir[i].kind = "Assign" => ~startswith(ir[i].src, Quote)
              /\ ir[i].kind = "BinaryOp" => ir[i].op # "/")
        => OperandsSupported


-----------------------------------------------------------------------------
(* Properties of the typing of comparisons *)

ComparisonOperators == {"<", "<=", ">", ">=", "==", "!="}

\* the expression of func main() { return l op r; }
ReturnedExpr(prog) == prog[1].body.statements[1].value

\* func main() { return r op l; } for the program func main() { return l op r; }
OperandsSwapped(prog) ==
    <<Main(<<ReturnStmt(BinaryExpr(ReturnedExpr(prog).right, ReturnedExpr(prog).op,
                                   ReturnedExpr(prog).left))>>)>>

\* the program is return l op r for literals l, r and a comparison op, and
\* the analyzer has run on it
ComparisonAnalyzed ==
    /\ program \in ReturnBinaryPrograms
    /\ ReturnedExpr(program).op \in ComparisonOperators
    /\ phase # "semantic"

\* the analyzer's verdicts on l op r and on r op l are the same
SameVerdictSwapped ==
    (sem.err = "none") <=> (analyze(OperandsSwapped(program)).err = "none")

\* C27: for every comparison operator and literals l, r of all types, the
\* analyzer accepts l op r exactly when it accepts r op l
ComparisonTypingSymmetric == ComparisonAnalyzed => SameVerdictSwapped

\* the same when the two operands are not an int and a float
ComparisonSymmetricWithoutPromotion ==
    (ComparisonAnalyzed
        /\ {_infer_literal_type(ReturnedExpr(program).left.value),
            _infer_literal_type(ReturnedExpr(program).right.value)} # {"int", "float"})
        => SameVerdictSwapped


-----------------------------------------------------------------------------
(* Properties of the parser's cursor *)

\* the names that follow the lexeme func, in source order
RECURSIVE NamesDeclared(_)
NamesDeclared(lexemes) ==
    IF Len(lexemes) < 2 THEN <<>>
    ELSE IF Head(lexemes) = tfunc
    THEN <<lexemes[2]>> \o NamesDeclared(Tail(lexemes))
    ELSE NamesDeclared(Tail(lexemes))

\* the names of the functions of a Program, in its order
NamesListed(functions) == [i \in 1..Len(functions) |-> functions[i].name]

\* the parser on toks with c tokens consumed
ParserAt(toks, c) == [tokens |-> toks, current |-> c]

\* a parsing method entered with c tokens consumed and returning r consumed
\* at least one token, unless it raised
Advanced(r, c) == r.ok => r.p.current > c

\* from every position of the list, advance leaves the cursor on a token of
\* the list, and one iteration of the loop of parse_program (function_decl)
\* or of block (declaration) consumes a token or raises
CursorDiscipline(toks) ==
    \A c \in 0..(Len(toks) - 1) :
        /\ advance(ParserAt(toks, c)).current \in 0..(Len(toks) - 1)
        /\ Advanced(function_decl(ParserAt(toks, c)), c)
        /\ Advanced(declaration(ParserAt(toks, c)), c)

\* the lexemes of a list of tokens
LexemesOf(toks) == [i \in 1..Len(toks) |-> toks[i].lexeme]

\* longest program, in lexemes, whose text is handed to the lexer
MaxLexedLen == 8

\* the lexer emits the lexemes of the text and a sentinel spelled as the
\* identifier EOF is; parse returned a Program only with every token before
\* the final sentinel consumed, and the Program lists the declared
\* functions once each in source order
WholeStreamParsed ==
    /\ Len(unit.lexemes) <= MaxLexedLen =>
           LexemesOf(tokenize(Src(unit.lexemes)).tokens) = unit.lexemes \o <<tEOF>>
    /\ CursorDiscipline(out.tokens)
    /\ out.result.p.current \in 0..(Len(out.tokens) - 1)
    /\ out.result.ok =>
           /\ out.result.p.current = Len(out.tokens) - 1
           /\ NamesListed(out.result.node) = NamesDeclared(unit.lexemes)

\* C28: on the tokens the lexer emits for programs of up to MaxPieces
\* pieces (functions and the identifiers EOF and x), the parser's cursor
\* always indexes a token of the list, every loop iteration consumes a
\* token or raises, and parse returns a Program only when every token
\* before the final sentinel has been consumed into function declarations,
\* the Program listing each declared function once in source order
ParserConsumesStream == (out.done /\ unit.fn = "parse_program") => WholeStreamParsed

\* the same for the texts in which no identifier is spelled EOF
ParserConsumesStreamWithoutEOFName ==
    (out.done /\ unit.fn = "parse_program"
        /\ \A i \in 1..Len(unit.lexemes) : unit.lexemes[i] # tEOF) => WholeStreamParsed


-----------------------------------------------------------------------------
(* Properties of what the optimizer leaves in place *)

\* the kinds of the instructions of control flow and side effects
EffectKinds ==
    {"Label", "FuncLabel", "IfGoto", "ParamInstr", "CallInstr", "ReturnInstr",
     "PrintInstr", "ReadInstr"}

\* the instructions of those kinds, in their order
RECURSIVE EffectsOf(_)
EffectsOf(instrs) ==
    IF instrs = <<>> THEN <<>>
    ELSE (IF Head(instrs).kind \in EffectKinds THEN <<Head(instrs)>> ELSE <<>>)
         \o EffectsOf(Tail(instrs))

\* the positions of `full` from i on that are missing in `kept` from j on,
\* `kept` being `full` with instructions removed; 0 is among them when
\* `kept` is not `full` with instructions removed
RECURSIVE Dropped(_, _, _, _)
Dropped(full, kept, i, j) ==
    IF i > Len(full) THEN (IF j > Len(kept) THEN {} ELSE {0})
    ELSE IF j <= Len(kept) /\ full[i] = kept[j] THEN Dropped(full, kept, i + 1, j + 1)
    ELSE {i} \cup Dropped(full, kept, i + 1, j)

\* constant propagation returned `after` for `before`: nothing is removed or
\* moved, and only binary and unary operations are altered, keeping their
\* destination
OnlyOperationsAltered(before, after) ==
    /\ Len(after) = Len(before)
    /\ \A i \in 1..Len(before) :
          IF before[i].kind \in {"BinaryOp", "UnaryOp"}
          THEN /\ after[i].kind \in {before[i].kind, "Assign"}
               /\ after[i].dest = before[i].dest
          ELSE after[i] = before[i]

\* `after` is `before` without some Assigns to t-prefixed names that no
\* instruction of `before` reads
OnlyUnreadTempsRemoved(before, after) ==
    \A i \in Dropped(before, after, 1, 1) :
        /\ i # 0
        /\ before[i].kind = "Assign"
        /\ startswith(before[i].dest, "t")
        /\ \A k \in 1..Len(before) :
              before[i].dest \notin
                  (CASE before[k].kind = "Assign" -> {before[k].src}
                     [] before[k].kind = "BinaryOp" -> {before[k].left, before[k].right}
                     [] before[k].kind = "UnaryOp" -> {before[k].operand}
                     [] before[k].kind \in {"PrintInstr", "ParamInstr"} -> {before[k].value}
                     [] before[k].kind = "IfGoto" -> {before[k].condition}
                     [] before[k].kind = "ReturnInstr" /\ before[k].has_value ->
                          {before[k].value}
                     [] OTHER -> {})

\* `after` is `before` without some Gotos, each followed in `before` by the
\* Label it targets
OnlyGotosToNextRemoved(before, after) ==
    \A i \in Dropped(before, after, 1, 1) :
        /\ i # 0
        /\ before[i].kind = "Goto"
        /\ i < Len(before)
        /\ before[i + 1] = Label(before[i].target)

\* every Goto and IfGoto of instrs targets a Label of instrs and every Call
\* calls a FuncLabel of instrs
TargetsDefined(instrs) ==
    \A i \in 1..Len(instrs) :
        /\ instrs[i].kind \in {"Goto", "IfGoto"} =>
              \E k \in 1..Len(instrs) : instrs[k] = Label(instrs[i].target)
        /\ instrs[i].kind = "CallInstr" =>
              \E k \in 1..Len(instrs) : instrs[k] = FuncLabel(instrs[i].callee)

\* optimize() returned optimized_ir for ir
Optimized == phase \in {"vm", "reference", "end"} /\ optimize(ir).ok

-----------------------------------------------------------------------------
(* Properties of the scope stack *)

\* the current scope of the analyzer is the global scope
AtGlobalScope == out.an.symtab.scopes = <<>>

\* the scopes entered and not yet left by the analysis so far: the function,
\* the blocks and the for-loops whose statements are being analyzed
OpenScopes == Len(out.stack)

\* every symbol of the global scope is a function
OnlyFunctionsGlobal ==
    \A name \in DOMAIN out.an.symtab.global_scope :
        out.an.symtab.global_scope[name].kind = "func"

\* C30 - scope stack balance: as long as no error is raised the scopes
\* pushed and not popped are those of the function, blocks and for-loops
\* under analysis, so the current scope is the global scope between the
\* analyses of two functions and when analyze() returns; the global scope
\* holds function symbols only; and pop_scope in the global scope raises
\* and leaves the current scope as it is
ScopeStackBalanced ==
    /\ ~Raised => Len(out.an.symtab.scopes) = OpenScopes
    /\ (~Raised /\ out.stack = <<>>) => AtGlobalScope
    /\ (~Raised /\ out.stage = "done") =>
          /\ AtGlobalScope
          /\ analyze(unit.functions).err = "none"
          /\ analyze(unit.functions).symtab.scopes = <<>>
    /\ OnlyFunctionsGlobal
    /\ AtGlobalScope =>
          /\ ~pop_scope(out.an.symtab).ok
          /\ pop_scope(out.an.symtab).symtab = out.an.symtab
          /\ ~Raised => /\ PopScope(out.an).err = "SymbolTableError"
                        /\ PopScope(out.an).symtab = out.an.symtab

\* analyze() returned without error for a program whose main declares x in
\* a block and in a for-loop: both scopes and both function scopes were
\* pushed and popped, and the global scope holds the two functions
ScopesPoppedAtEnd ==
    /\ out.stage = "done" /\ ~Raised
    /\ AtGlobalScope
    /\ DOMAIN out.an.symtab.global_scope = {tg, tmain}
    /\ \E j \in 1..Len(unit.functions[2].body.statements) :
          LET stmt == unit.functions[2].body.statements[j]
          IN stmt.node = "BlockStmt" /\ stmt.statements[1].node = "VarDeclStmt"
    /\ \E j \in 1..Len(unit.functions[2].body.statements) :
          LET stmt == unit.functions[2].body.statements[j]
          IN stmt.node = "ForStmt" /\ stmt.init.node = "VarDeclStmt"

=============================================================================
